---- MODULE Spec2Model ----
(***************************************************************************)
(* Model of the tag-sync tool (zhangzqs/blog-tags-sync): the generate run  *)
(* of index.ts (runGenerate), the bounded-concurrency generation loop of   *)
(* llm.ts (generateTags), the tag merge of taxonomy.ts (mergeTags) and the *)
(* persistence of writer.ts (readTagsFile / writeTagsSnapshot /            *)
(* writeTagsFile).                                                         *)
(*                                                                         *)
(* A tag is a sequence of one-character strings, a tag list is a sequence  *)
(* of tags, and a TagsMap (a JavaScript object) is a sequence of entries   *)
(* [path, tags] in insertion order.                                        *)
(***************************************************************************)
EXTENDS Integers, Sequences, FiniteSets, TLC

(***************************************************************************)
(* Tags and their normalisation (taxonomy.ts)                              *)
(***************************************************************************)

\* characters matched by the class [\s_/] of normalizeTag
IsSeparator(c) == c \in {" ", "_", "/"}

\* String.prototype.toLowerCase on one character of the model's alphabet
LowerChar(c) ==
  CASE c = "A" -> "a"
    [] c = "B" -> "b"
    [] c = "N" -> "n"
    [] OTHER -> c

toLowerCase(s) == [i \in 1..Len(s) |-> LowerChar(s[i])]

\* .replace(/[\s_/]+/g, ' ') : every maximal run of separators becomes one space
RECURSIVE CollapseRuns(_)
CollapseRuns(s) ==
  IF s = <<>> THEN <<>>
  ELSE IF IsSeparator(s[1])
       THEN IF Len(s) > 1 /\ IsSeparator(s[2])
            THEN CollapseRuns(Tail(s))
            ELSE <<" ">> \o CollapseRuns(Tail(s))
       ELSE <<s[1]>> \o CollapseRuns(Tail(s))

\* String.prototype.trim
RECURSIVE TrimLeft(_)
TrimLeft(s) == IF s # <<>> /\ s[1] = " " THEN TrimLeft(Tail(s)) ELSE s

RECURSIVE TrimRight(_)
TrimRight(s) ==
  IF s # <<>> /\ s[Len(s)] = " " THEN TrimRight(SubSeq(s, 1, Len(s) - 1)) ELSE s

trim(s) == TrimRight(TrimLeft(s))

\* .replace(/\s+/g, ' ') : every maximal run of white space becomes one space
RECURSIVE CollapseSpaces(_)
CollapseSpaces(s) ==
  IF s = <<>> THEN <<>>
  ELSE IF s[1] = " " /\ Len(s) > 1 /\ s[2] = " "
       THEN CollapseSpaces(Tail(s))
       ELSE <<s[1]>> \o CollapseSpaces(Tail(s))

\* a normalisation that only trims
normalizeTagTrimOnly(tag) == trim(tag)

\* normalizeTag: the empty tag is falsy and yields ''
normalizeTag(tag) ==
  IF tag = <<>> THEN <<>> ELSE trim(CollapseSpaces(CollapseRuns(tag)))

\* primary collation weight of a character under localeCompare(.., 'zh-CN'):
\* space sorts before letters, letters sort alphabetically ignoring case
CharWeight(c) ==
  CASE c = " " -> 0
    [] LowerChar(c) = "a" -> 1
    [] LowerChar(c) = "b" -> 2
    [] LowerChar(c) = "c" -> 3
    [] LowerChar(c) = "n" -> 4
    [] OTHER -> 5

\* a.localeCompare(b, 'zh-CN') < 0 on strings with distinct lower-case keys
RECURSIVE localeLess(_, _)
localeLess(a, b) ==
  IF b = <<>> THEN FALSE
  ELSE IF a = <<>> THEN TRUE
  ELSE IF CharWeight(a[1]) # CharWeight(b[1]) THEN CharWeight(a[1]) < CharWeight(b[1])
  ELSE localeLess(Tail(a), Tail(b))

\* Array.prototype.sort with the localeCompare comparator (insertion sort, stable)
RECURSIVE InsertSorted(_, _)
InsertSorted(sorted, x) ==
  IF sorted = <<>> THEN <<x>>
  ELSE IF localeLess(x, sorted[1]) THEN <<x>> \o sorted
  ELSE <<sorted[1]>> \o InsertSorted(Tail(sorted), x)

RECURSIVE sortLocale(_)
sortLocale(values) ==
  IF values = <<>> THEN <<>>
  ELSE InsertSorted(sortLocale(SubSeq(values, 1, Len(values) - 1)), values[Len(values)])

\* the keys already held by the `seen` map of dedupe
SeenKeys(values) == {toLowerCase(values[i]) : i \in 1..Len(values)}

\* the loop of dedupe: first occurrence of a lower-case key wins
RECURSIVE DedupeLoop(_, _)
DedupeLoop(tags, seen) ==
  IF tags = <<>> THEN seen
  ELSE LET normalized == normalizeTag(tags[1])
           key == toLowerCase(normalized)
       IN IF normalized = <<>> THEN DedupeLoop(Tail(tags), seen)
          ELSE IF key \in SeenKeys(seen) THEN DedupeLoop(Tail(tags), seen)
          ELSE DedupeLoop(Tail(tags), Append(seen, normalized))

\* a dedupe that leaves the values in insertion order whatever `sort` says
dedupeIgnoresSort(tags, sort) == DedupeLoop(tags, <<>>)

dedupe(tags, sort) ==
  LET values == DedupeLoop(tags, <<>>)
  IN IF sort THEN sortLocale(values) ELSE values

\* Array.prototype.filter
RECURSIVE FilterNotIn(_, _)
FilterNotIn(tags, keySet) ==
  IF tags = <<>> THEN <<>>
  ELSE IF toLowerCase(normalizeTag(tags[1])) \in keySet
       THEN FilterNotIn(Tail(tags), keySet)
       ELSE <<tags[1]>> \o FilterNotIn(Tail(tags), keySet)

\* a merge that concatenates the three lists without the final dedupe
mergeTagsKeepsDuplicates(fromSource, recommended, historical, sortTags) ==
  LET historyPart == dedupe(historical, FALSE)
      sourcePart  == dedupe(fromSource, FALSE)
      ordered     == historyPart \o sourcePart \o recommended
      existingSet == {toLowerCase(normalizeTag((historyPart \o sourcePart)[i])) :
                        i \in 1..Len(historyPart \o sourcePart)}
  IN [tags |-> ordered, added |-> FilterNotIn(ordered, existingSet)]

\* a merge whose `added` is computed against the historical tags alone
mergeTagsAddedIgnoresSource(fromSource, recommended, historical, sortTags) ==
  LET historyPart == dedupe(historical, FALSE)
      sourcePart  == dedupe(fromSource, FALSE)
      unique      == dedupe(historyPart \o sourcePart \o recommended, sortTags)
      existingSet == {toLowerCase(normalizeTag(historyPart[i])) : i \in 1..Len(historyPart)}
  IN [tags |-> unique, added |-> FilterNotIn(unique, existingSet)]

\* a merge that starts from the document's own tags and forgets the index
mergeTagsForgetsHistorical(fromSource, recommended, historical, sortTags) ==
  LET sourcePart  == dedupe(fromSource, FALSE)
      unique      == dedupe(sourcePart \o recommended, sortTags)
      existingSet == {toLowerCase(normalizeTag(sourcePart[i])) : i \in 1..Len(sourcePart)}
  IN [tags |-> unique, added |-> FilterNotIn(unique, existingSet)]

\* mergeTags(fromSource, recommended, historical, config)
mergeTags(fromSource, recommended, historical, sortTags) ==
  LET historyPart == dedupe(historical, FALSE)
      sourcePart  == dedupe(fromSource, FALSE)
      ordered     == historyPart \o sourcePart \o recommended
      unique      == dedupe(ordered, sortTags)
      existingSet == {toLowerCase(normalizeTag((historyPart \o sourcePart)[i])) :
                        i \in 1..Len(historyPart \o sourcePart)}
      added       == FilterNotIn(unique, existingSet)
  IN [tags |-> unique, added |-> added]

\* String.prototype.includes
includes(text, needle) ==
  \E i \in 1..(Len(text) + 1) :
     /\ i + Len(needle) - 1 <= Len(text)
     /\ SubSeq(text, i, i + Len(needle) - 1) = needle

\* rule.pattern: absent (or the empty string), the source of a regular
\* expression that is a literal text, or a source that new RegExp rejects
NoPattern == [kind |-> "none", text |-> <<>>]
LiteralPattern(text) == [kind |-> "literal", text |-> text]
MalformedPattern == [kind |-> "malformed", text |-> <<"(">>]

\* config.taxonomyRules: null, or the entries [category, includes, pattern]
\* of the rules object in declared order
NoTaxonomyRules == [defined |-> FALSE, entries |-> <<>>]
TaxonomyRules(entries) == [defined |-> TRUE, entries |-> entries]

Uncategorized == "uncategorized"

\* includes.some(candidate => normalizeTag(candidate).toLowerCase() ===
\*                            normalizeTag(tag).toLowerCase())
IncludesMatch(candidates, tag) ==
  \E i \in 1..Len(candidates) :
     toLowerCase(normalizeTag(candidates[i])) = toLowerCase(normalizeTag(tag))

\* new RegExp(pattern, 'i') threw
RegExpThrows(pattern) == pattern.kind = "malformed"

\* new RegExp(pattern, 'i').test(tag) for a literal pattern
RegExpTest(pattern, tag) == includes(toLowerCase(tag), toLowerCase(pattern.text))

\* the inner loop of classifyTags: the first category, in declared order,
\* whose includes hold the tag or whose pattern matches it
RECURSIVE FirstCategory(_, _)
FirstCategory(tag, entries) ==
  IF entries = <<>> THEN Uncategorized
  ELSE IF IncludesMatch(entries[1].includes, tag) THEN entries[1].category
  ELSE IF /\ entries[1].pattern.kind # "none"
          /\ ~RegExpThrows(entries[1].pattern)
          /\ RegExpTest(entries[1].pattern, tag)
       THEN entries[1].category
  ELSE FirstCategory(tag, Tail(entries))

\* a classification that evaluates the categories from the last declared to
\* the first
classifyTagsLastDeclaredFirst(tags, taxonomyRules) ==
  [tag \in {tags[i] : i \in 1..Len(tags)} |->
     IF ~taxonomyRules.defined THEN Uncategorized
     ELSE FirstCategory(tag, [i \in 1..Len(taxonomyRules.entries) |->
                                taxonomyRules.entries[Len(taxonomyRules.entries) + 1 - i]])]

\* a classification that is lost as a whole when one pattern is malformed
classifyTagsLostOnMalformed(tags, taxonomyRules) ==
  [tag \in {tags[i] : i \in 1..Len(tags)} |->
     IF \/ ~taxonomyRules.defined
        \/ \E i \in 1..Len(taxonomyRules.entries) :
             RegExpThrows(taxonomyRules.entries[i].pattern)
     THEN Uncategorized
     ELSE FirstCategory(tag, taxonomyRules.entries)]

\* classifyTags(tags, taxonomyRules): an object keyed by tag
classifyTags(tags, taxonomyRules) ==
  [tag \in {tags[i] : i \in 1..Len(tags)} |->
     IF ~taxonomyRules.defined THEN Uncategorized
     ELSE FirstCategory(tag, taxonomyRules.entries)]

\* the MergeResult of mergeTags: tags, added and classification
mergeTagsResult(fromSource, recommended, historical, sortTags, taxonomyRules) ==
  LET merged == mergeTags(fromSource, recommended, historical, sortTags)
  IN [tags |-> merged.tags, added |-> merged.added,
      classification |-> classifyTags(merged.tags, taxonomyRules)]

(***************************************************************************)
(* TagsMap: a JavaScript object, kept as its entries in insertion order    *)
(***************************************************************************)

Keys(map) == {map[i].path : i \in 1..Len(map)}

Has(map, key) == key \in Keys(map)

\* map[key]; only used where the key is present
Get(map, key) == map[CHOOSE i \in 1..Len(map) : map[i].path = key].tags

\* an assignment that leaves the assigned entry alone in the map
SetDropsOthers(map, key, tags) == <<[path |-> key, tags |-> tags]>>

\* map[key] = tags : an existing key keeps its position, a new key is appended
Set(map, key, tags) ==
  IF Has(map, key)
  THEN [i \in 1..Len(map) |-> IF map[i].path = key THEN [path |-> key, tags |-> tags] ELSE map[i]]
  ELSE Append(map, [path |-> key, tags |-> tags])

\* delete map[key] for every key outside keep
RECURSIVE Retain(_, _)
Retain(map, keep) ==
  IF map = <<>> THEN <<>>
  ELSE IF map[1].path \in keep THEN <<map[1]>> \o Retain(Tail(map), keep)
  ELSE Retain(Tail(map), keep)

\* the documents of the model and the order of their identifiers under
\* localeCompare(.., 'en-US')
Paths == {"a.md", "b.md", "c.md"}

PathRank(path) ==
  CASE path = "a.md" -> 1
    [] path = "b.md" -> 2
    [] path = "c.md" -> 3

\* a snapshot left in insertion order
sortTagsMapUnsorted(map) == map

\* sortTagsMap: Object.fromEntries(Object.entries(map).sort(by key)); the keys
\* of an object are distinct, so each entry goes to the position given by the
\* number of entries whose key compares smaller
sortTagsMap(map) ==
  LET position(i) ==
        Cardinality({j \in 1..Len(map) : PathRank(map[j].path) < PathRank(map[i].path)}) + 1
  IN [k \in 1..Len(map) |-> map[CHOOSE i \in 1..Len(map) : position(i) = k]]

(***************************************************************************)
(* The corpus, the configuration and the generation service                *)
(***************************************************************************)

\* readdir order of the post root
PathOrder == <<"a.md", "b.md", "c.md">>

\* the identifier as text, for the substring test of --filter
PathChars(path) ==
  CASE path = "a.md" -> <<"a", ".", "m", "d">>
    [] path = "b.md" -> <<"b", ".", "m", "d">>
    [] path = "c.md" -> <<"c", ".", "m", "d">>

\* data.tags of each document's front matter
FrontMatterTags(path) ==
  CASE path = "a.md" -> << <<"b">>, <<"a", "_", "b">> >>
    [] path = "b.md" -> << <<"A">> >>
    [] path = "c.md" -> <<>>

\* the tag list the generation service proposes for a document when it answers
ProposedFor(path) ==
  CASE path = "a.md" -> << <<"n">>, <<"a">> >>
    [] path = "b.md" -> <<>>
    [] path = "c.md" -> << <<"N">>, <<"b", "/", "a">> >>

\* the failure of an attempt for a document: non-success status, timeout
\* (abort), connection error
TransportErrorFor(path) ==
  CASE path = "a.md" -> "HTTP 500"
    [] path = "b.md" -> "This operation was aborted"
    [] path = "c.md" -> "fetch failed"

\* rejection of fs.writeFile / fs.mkdir
WriteError == "ENOSPC"

NoError == "none"

\* contents of tags.json before the run
AbsentFile == [kind |-> "absent", entries |-> <<>>]
PartialFile == [kind |-> "partial", entries |-> <<>>]

\* a tags.json that holds valid JSON which is not an object (null, a number,
\* a string), and one that cannot be read (for instance EACCES)
ScalarFile == [kind |-> "scalar", entries |-> <<>>]
UnreadableFile == [kind |-> "unreadable", entries |-> <<>>]
JsonFile(map) == [kind |-> "json", entries |-> map]

InitialArtifacts ==
  { AbsentFile,
    JsonFile(<< [path |-> "c.md", tags |-> << <<"b">> >>],
                [path |-> "a.md", tags |-> << <<"A">> >>] >>),
    JsonFile(<< [path |-> "b.md", tags |-> << <<"n">>, <<"a">> >>] >>) }

\* sets of markdown files found on disk
InitialFiles == { {"a.md", "b.md", "c.md"}, {"a.md", "b.md"}, {} }

\* values of --filter / TAG_SYNC_FILTER
FilterChoices == { <<>>, <<"a">> }

\* values of TAG_SYNC_MAX_CONCURRENCY as parseInt sees them
MaxConcurrencyInputs ==
  { [finite |-> TRUE, value |-> 0],
    [finite |-> TRUE, value |-> 2],
    [finite |-> FALSE, value |-> 0] }

\* options.retries ?? 2
DefaultRetries == 2

\* overrides.maxConcurrency ?? process.env.TAG_SYNC_MAX_CONCURRENCY ?? 3
DefaultMaxConcurrency == 3

BackoffStepMs == 2000
BackoffCapMs == 5000

Max(a, b) == IF a >= b THEN a ELSE b
Min(a, b) == IF a <= b THEN a ELSE b

\* parseInteger(value, defaultValue)
parseInteger(raw, defaultValue) == IF raw.finite THEN raw.value ELSE defaultValue

\* Math.max(1, parseInteger(maxConcurrencyRaw, 3))
ResolveMaxConcurrency(raw) == Max(1, parseInteger(raw, DefaultMaxConcurrency))

\* a backoff that waits the same time before every retry
BackoffMsFlat(attempt) == BackoffStepMs

\* Math.min(2000 * attempt, 5000)
BackoffMs(attempt) == Min(BackoffStepMs * attempt, BackoffCapMs)

\* loadPosts: path filter, then draft exclusion, in readdir order
loadPosts(onDisk, draftSet, filter, includeDrafts) ==
  LET normalizedFilter == trim(filter)
      Selected(path) ==
        /\ path \in onDisk
        /\ (normalizedFilter = <<>> \/ includes(PathChars(path), normalizedFilter))
        /\ (includeDrafts \/ path \notin draftSet)
  IN SelectSeq(PathOrder, Selected)

\* Boolean(config.filter && config.filter.trim())
FilterApplied(filter) == filter # <<>> /\ trim(filter) # <<>>

\* a readTagsFile that warns whenever it falls back to the empty index
readTagsFileWarnsAlways(file) ==
  IF file.kind = "json" THEN [map |-> file.entries, warned |-> FALSE]
  ELSE [map |-> <<>>, warned |-> TRUE]

\* readTagsFile: a parsed object is returned as it is; a parsed value that is
\* not an object and a missing file (ENOENT) yield the empty index silently;
\* any other failure of fs.readFile or JSON.parse yields it with a warning
readTagsFile(file) ==
  IF file.kind = "json" THEN [map |-> file.entries, warned |-> FALSE]
  ELSE IF file.kind \in {"scalar", "absent"} THEN [map |-> <<>>, warned |-> FALSE]
  ELSE [map |-> <<>>, warned |-> TRUE]

\* an arraysEqual that compares the two lists as sets
arraysEqualAsSets(existing, key, tags) ==
  /\ Has(existing, key)
  /\ {Get(existing, key)[i] : i \in 1..Len(Get(existing, key))} = {tags[i] : i \in 1..Len(tags)}

\* arraysEqual of writer.ts on a present/missing previous entry: same length
\* and the same tag at every position
arraysEqual(existing, key, tags) ==
  /\ Has(existing, key)
  /\ Len(Get(existing, key)) = Len(tags)
  /\ \A i \in 1..Len(tags) : Get(existing, key)[i] = tags[i]

\* buildDiff(existing, next)
buildDiff(existing, next) ==
  LET Updated(entry) == ~arraysEqual(existing, entry.path, entry.tags)
      Removed(entry) == ~Has(next, entry.path)
      PathsOf(entries) == [i \in 1..Len(entries) |-> entries[i].path]
  IN [updatedPaths |-> PathsOf(SelectSeq(next, Updated)),
      removedPaths |-> PathsOf(SelectSeq(existing, Removed))]

\* choices[0].message.content of a response: a text that holds a JSON array
\* of the given items, a text without any bracketed part, or a text whose
\* bracketed part JSON.parse rejects
ArrayContent(items) == [kind |-> "array", items |-> items]
ProseContent == [kind |-> "prose", items |-> <<>>]
UnparsableContent == [kind |-> "unparsable", items |-> <<>>]

\* parsed.map((item) => String(item).trim()).filter(Boolean)
RECURSIVE TrimItems(_)
TrimItems(items) ==
  IF items = <<>> THEN <<>>
  ELSE IF trim(items[1]) = <<>> THEN TrimItems(Tail(items))
  ELSE <<trim(items[1])>> \o TrimItems(Tail(items))

\* parseTagsFromContent: no match of /\[[\s\S]*\]/ or a rejected JSON.parse
\* yields the empty list
parseTagsFromContent(content) ==
  IF content.kind = "array" THEN TrimItems(content.items) ELSE <<>>

\* the contents a successful response for a document can carry
AnswerContents(path) ==
  IF ProposedFor(path) = <<>>
  THEN {ProseContent, UnparsableContent}
  ELSE {ArrayContent(ProposedFor(path))}

\* callChatCompletion whose catch block loses the error
callChatCompletionDropsError(apiKey, outcome) ==
  [tags |-> parseTagsFromContent(outcome.content), error |-> NoError]

\* callChatCompletion that reports a response without tags as a failure
callChatCompletionRejectsEmpty(apiKey, outcome) ==
  IF ~apiKey THEN [tags |-> <<>>, error |-> "Missing TAG_SYNC_API_KEY"]
  ELSE IF outcome.ok /\ parseTagsFromContent(outcome.content) # <<>>
  THEN [tags |-> parseTagsFromContent(outcome.content), error |-> NoError]
  ELSE [tags |-> <<>>, error |-> IF outcome.ok THEN "No tags in response" ELSE outcome.error]

\* callChatCompletion: every failure is caught and returned as a result
callChatCompletion(apiKey, outcome) ==
  IF ~apiKey THEN [tags |-> <<>>, error |-> "Missing TAG_SYNC_API_KEY"]
  ELSE IF outcome.ok
  THEN [tags |-> parseTagsFromContent(outcome.content), error |-> NoError]
  ELSE [tags |-> <<>>, error |-> outcome.error]

\* what one request for a document can produce
OutcomesFor(path) ==
  { [ok |-> TRUE, content |-> content, error |-> NoError] : content \in AnswerContents(path) }
    \cup { [ok |-> FALSE, content |-> ProseContent, error |-> TransportErrorFor(path)] }

\* the number of consecutive invocations of generate that are explored
MaxRuns == 2

\* the tag lists an entry of the persisted index can hold when the n-th
\* following run starts: those of the initial files, then the merges that the
\* runs before it wrote
RECURSIVE HistoryLevel(_)
HistoryLevel(n) ==
  IF n = 0
  THEN {<<>>} \cup UNION {{file.entries[i].tags : i \in 1..Len(file.entries)} :
                            file \in InitialArtifacts}
  ELSE LET previous == HistoryLevel(n - 1)
       IN previous \cup
          {mergeTags(FrontMatterTags(path), recommended, historical, sortTags).tags :
             path \in Paths, recommended \in {<<>>} \cup {ProposedFor(q) : q \in Paths},
             historical \in previous, sortTags \in BOOLEAN}

HistoryChoices == HistoryLevel(MaxRuns - 1)

\* the calls of mergeTags a run can make, evaluated once: generateTags merges
\* a document's own tags with the response's tags and its historical tags
mergeMemo ==
  [call \in {<<path, recommended, historical, sortTags>> :
               path \in Paths, recommended \in {<<>>} \cup {ProposedFor(q) : q \in Paths},
               historical \in HistoryChoices, sortTags \in BOOLEAN} |->
     mergeTags(FrontMatterTags(call[1]), call[2], call[3], call[4])]

MergeFor(path, recommended, historical, sortTags) ==
  mergeMemo[<<path, recommended, historical, sortTags>>]

\* Map.prototype.set on a map kept as a function
MapSet(map, key, value) ==
  [k \in DOMAIN map \cup {key} |-> IF k = key THEN value ELSE map[k]]

EmptyMap == [k \in {} |-> 0]

\* the sum of weight[x] over the elements of set
RECURSIVE SumOver(_, _)
SumOver(set, weight) ==
  IF set = {} THEN 0
  ELSE LET x == CHOOSE y \in set : TRUE
       IN weight[x] + SumOver(set \ {x}, weight)

\* buildStatistics(postsCount, merges, responses)
buildStatistics(postsCount, mergeMap, responses) ==
  LET tagCount == [path \in DOMAIN mergeMap |-> Len(mergeMap[path].tags)]
      newCount == [path \in DOMAIN mergeMap |-> Len(mergeMap[path].added)]
      called == DOMAIN mergeMap \cap DOMAIN responses
      failed == {path \in called : responses[path].error # NoError}
  IN [totalPosts |-> postsCount,
      processedPosts |-> Cardinality(DOMAIN mergeMap),
      skippedPosts |-> postsCount - Cardinality(DOMAIN mergeMap),
      llmCalls |-> Cardinality(called),
      llmFailures |-> Cardinality(failed),
      totalTags |-> SumOver(DOMAIN mergeMap, tagCount),
      totalNewTags |-> SumOver(DOMAIN mergeMap, newCount)]

NoStatistics == [totalPosts |-> 0, processedPosts |-> 0, skippedPosts |-> 0,
                 llmCalls |-> 0, llmFailures |-> 0, totalTags |-> 0, totalNewTags |-> 0]

(***************************************************************************)
(* Front matter of the documents and its rewriting (taxonomy.ts, second    *)
(* part: syncFrontmatterFromTags)                                          *)
(***************************************************************************)

\* ensureArray(data.tags) on a list: every item trimmed, the empty ones dropped
ensureArray(value) == TrimItems(value)

\* the loop of dedupeTags: trimmed, first occurrence of a lower-case key wins
RECURSIVE DedupeTagsLoop(_, _)
DedupeTagsLoop(tags, seen) ==
  IF tags = <<>> THEN seen
  ELSE LET trimmed == trim(tags[1])
           key == toLowerCase(trimmed)
       IN IF trimmed = <<>> THEN DedupeTagsLoop(Tail(tags), seen)
          ELSE IF key \in SeenKeys(seen) THEN DedupeTagsLoop(Tail(tags), seen)
          ELSE DedupeTagsLoop(Tail(tags), Append(seen, trimmed))

\* dedupeTags(tags, sort)
dedupeTags(tags, sort) ==
  LET normalized == DedupeTagsLoop(tags, <<>>)
  IN IF sort THEN sortLocale(normalized) ELSE normalized

\* arraysEqual of the front-matter synchronizer: same length, same items
frontmatterArraysEqual(a, b) ==
  /\ Len(a) = Len(b)
  /\ \A i \in 1..Len(a) : a[i] = b[i]

\* a scalar of the metadata block as it is spelled in the file: its text and
\* the quotes around it
Literal(text, quote) == [text |-> text, quote |-> quote]

HexoTimestamp == "2024-01-01 10:00:00"
DateOnly == "2024-01-01"

\* the type an unquoted text resolves to when YAML is loaded
Resolves(text) ==
  CASE text \in {HexoTimestamp, DateOnly} -> "Date"
    [] text \in {"true", "True"} -> "boolean"
    [] text \in {"1.5", "1.50"} -> "number"
    [] OTHER -> "string"

\* the text of a value in the serializer's own spelling
CanonicalText(text) ==
  CASE text = "True" -> "true"
    [] text = "1.50" -> "1.5"
    [] text \in {HexoTimestamp, DateOnly} -> "2024-01-01T10:00:00.000Z"
    [] OTHER -> text

\* matter(raw).data[key]: the value of a scalar; its spelling is not part of it
yamlLoad(literal) ==
  IF literal.quote # "none" THEN [type |-> "string", text |-> literal.text]
  ELSE [type |-> Resolves(literal.text), text |-> CanonicalText(literal.text)]

\* matter.stringify: every value is written in the serializer's spelling; a
\* string that would load as another type is put in single quotes
yamlDump(value) ==
  IF value.type = "string"
  THEN Literal(value.text, IF Resolves(value.text) # "string" THEN "single" ELSE "none")
  ELSE Literal(value.text, "none")

\* /^([A-Za-z0-9_-]+): '(\d{4}-\d{2}-\d{2} \d{2}:\d{2}:\d{2})'$/ -> '$1: $2'
stripTimestampQuotes(literal) ==
  IF literal.quote = "single" /\ literal.text = HexoTimestamp
  THEN Literal(literal.text, "none")
  ELSE literal

\* extractScalarLiterals(frontMatterRaw)[key]: the trimmed text after the colon
extractScalarLiterals(field) == field.literal.text

\* the value handed to the serializer for a field other than tags: a Date is
\* replaced by the text captured from the file, every other value is passed on
restoreLiteral(field) ==
  LET value == yamlLoad(field.literal)
  IN IF value.type = "Date"
     THEN [type |-> "string", text |-> extractScalarLiterals(field)]
     ELSE value

\* the field as stripTimestampQuotes(matter.stringify(content, nextData)) spells it
serializeField(field) ==
  [key |-> field.key, literal |-> stripTimestampQuotes(yamlDump(restoreLiteral(field)))]

\* the metadata fields other than tags of each document, and its body
FrontMatterFields(path) ==
  CASE path = "a.md" -> << [key |-> "date", literal |-> Literal(HexoTimestamp, "none")],
                           [key |-> "title", literal |-> Literal("Hello", "none")],
                           [key |-> "top", literal |-> Literal("true", "none")] >>
    [] path = "b.md" -> << [key |-> "title", literal |-> Literal("Hello", "double")],
                           [key |-> "top", literal |-> Literal("True", "none")] >>
    [] path = "c.md" -> << [key |-> "date", literal |-> Literal(DateOnly, "none")],
                           [key |-> "weight", literal |-> Literal("1.50", "none")] >>

BodyOf(path) == <<"body of", path>>

\* the files of the corpus as they are before any rewrite
InitialDocuments ==
  [path \in Paths |-> [tags |-> FrontMatterTags(path),
                       fields |-> FrontMatterFields(path),
                       body |-> BodyOf(path)]]

\* a rewrite that re-serializes the block with the tags it had
rewriteDocumentKeepsTags(document, expectedTags) ==
  [tags |-> document.tags,
   fields |-> [i \in 1..Len(document.fields) |-> serializeField(document.fields[i])],
   body |-> document.body]

\* the file written for a document: tags replaced, the block re-serialized
rewriteDocument(document, expectedTags) ==
  [tags |-> expectedTags,
   fields |-> [i \in 1..Len(document.fields) |-> serializeField(document.fields[i])],
   body |-> document.body]

\* indexes handed to the synchronizer
ApplyArtifacts ==
  { AbsentFile,
    JsonFile(<< [path |-> "a.md", tags |-> << <<"b">>, <<"a", "_", "b">> >>],
                [path |-> "b.md", tags |-> << <<"n">>, <<"a">> >>],
                [path |-> "c.md", tags |-> << <<"b">> >>] >>),
    JsonFile(<< [path |-> "c.md", tags |-> << <<"b">> >>],
                [path |-> "a.md", tags |-> << <<"a", "_", "b">>, <<"b">> >>] >>),
    JsonFile(<< [path |-> "b.md", tags |-> << <<"A">>, <<" ", "a">> >>],
                [path |-> "a.md", tags |-> << <<"n">> >>] >>) }

\* sets of markdown files found on disk when the synchronizer runs
ApplyFiles == InitialFiles \cup { {"b.md", "c.md"} }

NoSyncResult ==
  [updated |-> <<>>, unchanged |-> <<>>, missing |-> <<>>, filteredOut |-> <<>>,
   totalEntries |-> 0]

(***************************************************************************)
(* State of one generate run                                               *)
(***************************************************************************)

VARIABLES
  config,            \* TagSyncConfig: dryRun, filter, includeDrafts, apiKey, maxConcurrency, sortTags
  full,              \* args.full
  files,             \* markdown files under the post root
  disk,              \* "healthy", or "failing": a write of tags.json may be rejected
  drafts,            \* files whose front matter says draft: true
  artifact,          \* tags.json on disk
  runPC,             \* position of runGenerate
  exitCode,          \* process.exitCode
  posts,             \* result of loadPosts
  historicalTags,    \* result of readTagsFile at the start of the run
  tagsMap,           \* the in-memory index of runGenerate
  postsToProcess,    \* the documents handed to generateTags
  historicalTagsMap, \* generateTags' copy of the historical index
  results,           \* generateTags: path -> LlmResponse
  merges,            \* generateTags: path -> MergeResult
  task,              \* per document: position and locals of its limit() callback
  queue,             \* p-limit: callbacks not started yet
  writeQueue,        \* continuations chained on writeChain and not started
  writing,           \* writes of tags.json in progress
  chainRejected,     \* writeChain is a rejected promise
  writeState,        \* per waiter: state of the promise scheduleWrite returned
  adapterLog,        \* per document: requests sent, requests that failed, answers without array
  sleeps,            \* per document: the backoff delays slept
  slotAssigns,       \* slotAssigns[t][k]: assignments of tagsMap[k] made by task t
  scheduled,         \* reasons passed to scheduleWrite, in call order
  performed,         \* reasons of the writes started, in start order
  report,            \* what writeTagsFile returned
  stats,             \* the run summary
  runNo,             \* which invocation of the command this is
  prevArtifact,      \* tags.json as the previous invocation left it
  prevResults,       \* the responses the previous invocation recorded
  mergeArgs,         \* the arguments of a call of mergeTags made on its own
  mergeResult,       \* the MergeResult that call returned
  writerArgs,        \* a file and two indexes handed to readTagsFile and buildDiff
  writerResult,      \* what readTagsFile and buildDiff returned for them
  documents,         \* per path: the content of the markdown file
  applyPC,           \* position of syncFrontmatterFromTags
  applyEntries,      \* Object.entries(tagsMap) of the synchronizer
  applyPosts,        \* the posts the synchronizer loaded
  applyPos,          \* the entry the synchronizer's loop is at
  applyResult,       \* updated, unchanged, missing, filteredOut, totalEntries
  applyWrites,       \* the documents written by this invocation, in order
  applyNo,           \* which invocation of the frontmatter command this is
  applyPrev          \* options, result and writes of the previous invocation

vars == <<config, full, files, drafts, disk, artifact, runPC, exitCode, posts, historicalTags,
          tagsMap, postsToProcess, historicalTagsMap, results, merges, task, queue,
          writeQueue, writing, chainRejected, writeState, adapterLog, sleeps,
          slotAssigns, scheduled, performed, report, stats, runNo, prevArtifact,
          prevResults, mergeArgs, mergeResult, writerArgs, writerResult, documents,
          applyPC, applyEntries, applyPosts, applyPos, applyResult, applyWrites, applyNo,
          applyPrev>>

envVars == <<config, full, files, drafts, disk>>

\* what only a new invocation changes
runVars == <<runNo, prevArtifact, prevResults>>

\* what only the frontmatter command changes
applyVars == <<documents, applyPC, applyEntries, applyPosts, applyPos, applyResult,
               applyWrites, applyNo, applyPrev>>

\* what only a generate run changes
generateVars ==
  <<artifact, runPC, exitCode, posts, historicalTags, tagsMap, postsToProcess,
    historicalTagsMap, results, merges, task, queue, writeQueue, writing, chainRejected,
    writeState, adapterLog, sleeps, slotAssigns, scheduled, performed, report, stats>>

\* what a generate run leaves alone
callVars == <<mergeArgs, mergeResult, writerArgs, writerResult, applyVars>>

NoPrevApply == [dryRun |-> FALSE, result |-> NoSyncResult, writes |-> <<>>]

\* the frontmatter command is not run
NoApply ==
  /\ documents = InitialDocuments
  /\ applyPC = "idle"
  /\ applyEntries = <<>>
  /\ applyPosts = <<>>
  /\ applyPos = 1
  /\ applyResult = NoSyncResult
  /\ applyWrites = <<>>
  /\ applyNo = 1
  /\ applyPrev = NoPrevApply

\* the functions of writer.ts called on their own: nothing handed over,
\* nothing returned yet
NoWriterArgs == [file |-> AbsentFile, existing |-> <<>>, next |-> <<>>]
NoWriterResult ==
  [read |-> [returned |-> FALSE, map |-> <<>>, warned |-> FALSE],
   diff |-> [returned |-> FALSE, updatedPaths |-> <<>>, removedPaths |-> <<>>]]

\* a call of mergeTags: no arguments, nothing returned yet
NoMergeArgs == [fromSource |-> <<>>, recommended |-> <<>>, historical |-> <<>>,
                sortTags |-> FALSE, taxonomyRules |-> NoTaxonomyRules]
NoMergeResult == [returned |-> FALSE, tags |-> <<>>, added |-> <<>>,
                  classification |-> EmptyMap]

Waiters == Paths \cup {"finalize"}

IdleTask == [pc |-> "idle", attempt |-> 0, lastError |-> NoError,
             historyTags |-> <<>>, response |-> [tags |-> <<>>, error |-> NoError]]

NoReport == [written |-> FALSE, updatedPaths |-> <<>>, created |-> FALSE]

\* the runs in which a failing disk is explored
FailingDiskProfile(cfg, forceFull, onDisk) ==
  /\ ~cfg.dryRun /\ cfg.apiKey /\ cfg.sortTags
  /\ cfg.filter = <<>> /\ ~forceFull
  /\ onDisk = {"a.md", "b.md"}

\* the state of a process that has not started its run
RunInit ==
  /\ runPC = "start"
  /\ exitCode = 0
  /\ posts = <<>>
  /\ historicalTags = <<>>
  /\ tagsMap = <<>>
  /\ postsToProcess = <<>>
  /\ historicalTagsMap = <<>>
  /\ results = EmptyMap
  /\ merges = EmptyMap
  /\ task = [p \in Paths |-> IdleTask]
  /\ queue = <<>>
  /\ writeQueue = <<>>
  /\ writing = <<>>
  /\ chainRejected = FALSE
  /\ writeState = [w \in Waiters |-> "none"]
  /\ adapterLog = [p \in Paths |-> [sent |-> 0, failed |-> 0, unparsed |-> 0]]
  /\ sleeps = [p \in Paths |-> <<>>]
  /\ slotAssigns = [t \in Paths |-> [k \in Paths |-> 0]]
  /\ scheduled = <<>>
  /\ performed = <<>>
  /\ report = NoReport
  /\ stats = NoStatistics
  /\ runNo = 1
  /\ prevArtifact = AbsentFile
  /\ prevResults = EmptyMap

Init ==
  /\ config \in [dryRun : BOOLEAN,
                 filter : FilterChoices,
                 includeDrafts : BOOLEAN,
                 apiKey : BOOLEAN,
                 maxConcurrency : {ResolveMaxConcurrency(raw) : raw \in MaxConcurrencyInputs},
                 sortTags : BOOLEAN]
  /\ full \in BOOLEAN
  /\ files \in InitialFiles
  /\ drafts \in {{}, {"c.md"} \cap files}
  /\ drafts = {} => ~config.includeDrafts
  /\ disk \in {"healthy", "failing"}
  /\ disk = "failing" => FailingDiskProfile(config, full, files)
  /\ artifact \in InitialArtifacts
  /\ RunInit
  /\ mergeArgs = NoMergeArgs
  /\ mergeResult = NoMergeResult
  /\ writerArgs = NoWriterArgs
  /\ writerResult = NoWriterResult
  /\ NoApply

\* the elements of a sequence
Range(seq) == {seq[i] : i \in 1..Len(seq)}

\* p-limit: callbacks started and not settled
InFlightPCs == {"sleeping", "calling", "awaitWrite", "awaitFallbackWrite"}
InFlight == {p \in Paths : task[p].pc \in InFlightPCs}
activeCount == Cardinality(InFlight)

SettledPCs == {"done", "rejected"}

\* a limiter that starts every callback at once
HasFreeSlotUnbounded(active, concurrency) == TRUE

\* p-limit starts the next callback while fewer than `concurrency` are active
HasFreeSlot(active, concurrency) == active < concurrency

\* writes started without waiting for the previous one
ChainIdleUnchained(inProgress) == TRUE

\* a continuation chained with .then runs only after the previous one settled
ChainIdle(inProgress) == inProgress = <<>>

\* pruning that never removes a key
KeptKeysNoPrune(map, processedPaths, filter) == Keys(map)

\* pruning that ignores the filter
KeptKeysIgnoresFilter(map, processedPaths, filter) == Keys(map) \cap processedPaths

\* the keys runGenerate keeps when it prunes (index.ts 180-188)
KeptKeys(map, processedPaths, filter) ==
  IF ~FilterApplied(filter) THEN Keys(map) \cap processedPaths ELSE Keys(map)

\* a selection that regenerates every document whatever the index holds
SelectPostsToProcessAll(forceFull, loaded, historical) == loaded

\* forceFull ? posts : posts.filter((post) => !historicalTags[post.relativePath])
SelectPostsToProcess(forceFull, loaded, historical) ==
  LET Missing(path) == ~Has(historical, path)
  IN IF forceFull THEN loaded ELSE SelectSeq(loaded, Missing)

(***************************************************************************)
(* runGenerate (index.ts)                                                  *)
(***************************************************************************)

\* callbacks that all assign one slot: the last to fire wins
SlotOfShared(post) == "a.md"

\* the slot of tagsMap that the completion callback of `post` assigns
SlotOf(post) == post

\* a scheduleWrite whose promise never settles once the chain is rejected
ScheduleWriteAfterRejection(reason) ==
  /\ scheduled' = Append(scheduled, reason)
  /\ writeQueue' = Append(writeQueue, reason)
  /\ writeState' = [writeState EXCEPT ![reason] = "pending"]

\* scheduleWrite(reason): chain one more continuation on writeChain
ScheduleWrite(reason) ==
  /\ scheduled' = Append(scheduled, reason)
  /\ IF chainRejected
     THEN /\ writeQueue' = writeQueue
          /\ writeState' = [writeState EXCEPT ![reason] = "rejected"]
     ELSE /\ writeQueue' = Append(writeQueue, reason)
          /\ writeState' = [writeState EXCEPT ![reason] = "pending"]

\* a completion callback that commits the snapshot even in a dry run
OnPostProcessedAlwaysWrites(post, mergedTags) ==
  /\ tagsMap' = Set(tagsMap, SlotOf(post), mergedTags)
  /\ slotAssigns' = [slotAssigns EXCEPT ![post][SlotOf(post)] = @ + 1]
  /\ ScheduleWrite(post)

\* onPostProcessed(post, merge)
OnPostProcessed(post, mergedTags) ==
  /\ tagsMap' = Set(tagsMap, SlotOf(post), mergedTags)
  /\ slotAssigns' = [slotAssigns EXCEPT ![post][SlotOf(post)] = @ + 1]
  /\ IF ~config.dryRun
     THEN ScheduleWrite(post)
     ELSE UNCHANGED <<scheduled, writeQueue, writeState>>

\* loadPosts, the early return, readTagsFile, the choice of the documents to
\* process and the synchronous head of generateTags
RunStart ==
  /\ runPC = "start"
  /\ LET loaded == loadPosts(files, drafts, config.filter, config.includeDrafts)
         historical == readTagsFile(artifact).map
         selected == SelectPostsToProcess(full, loaded, historical)
     IN /\ posts' = loaded
        /\ IF loaded = <<>>
           THEN /\ runPC' = "returned"
                /\ UNCHANGED <<historicalTags, tagsMap, postsToProcess, historicalTagsMap,
                               task, queue, exitCode>>
           ELSE /\ historicalTags' = historical
                /\ tagsMap' = historical
                /\ postsToProcess' = selected
                /\ IF selected # <<>> /\ ~config.apiKey
                   THEN /\ runPC' = "failed"
                        /\ exitCode' = 1
                        /\ historicalTagsMap' = historical
                        /\ UNCHANGED <<task, queue>>
                   ELSE /\ runPC' = "generating"
                        /\ historicalTagsMap' = IF selected # <<>> THEN historical ELSE <<>>
                        /\ queue' = selected
                        /\ task' = [p \in Paths |->
                                      IF p \in Range(selected)
                                      THEN [IdleTask EXCEPT !.pc = "queued"]
                                      ELSE task[p]]
                        /\ UNCHANGED exitCode
  /\ UNCHANGED <<envVars, runVars, callVars, artifact, results, merges, writeQueue, writing, chainRejected,
                 writeState, adapterLog, sleeps, slotAssigns, scheduled, performed,
                 report, stats>>

\* generateTags resolved: await writeChain, prune, sort, then the final write
Finalize ==
  /\ runPC = "generating"
  /\ \A p \in Range(postsToProcess) : task[p].pc = "done"
  /\ ~chainRejected /\ writeQueue = <<>> /\ writing = <<>>
  /\ LET pruned == Retain(tagsMap, KeptKeys(tagsMap, Range(posts), config.filter))
         sortedTagsMap == sortTagsMap(pruned)
         existing == readTagsFile(artifact).map
         diff == buildDiff(existing, sortedTagsMap)
         changedPaths == diff.updatedPaths \o diff.removedPaths
     IN /\ tagsMap' = pruned
        /\ IF config.dryRun
           THEN /\ report' = [written |-> FALSE, updatedPaths |-> changedPaths, created |-> FALSE]
                /\ runPC' = "done"
                /\ stats' = buildStatistics(Len(postsToProcess), merges, results)
                /\ UNCHANGED <<artifact, writing, performed, scheduled, writeQueue, writeState>>
           ELSE IF postsToProcess = <<>>
           THEN /\ writing' = Append(writing,
                                  [reason |-> "writeTagsFile", via |-> "direct",
                                   stage |-> "mkdir", snapshot |-> sortedTagsMap,
                                   result |-> [written |-> TRUE, updatedPaths |-> changedPaths,
                                               created |-> existing = <<>>]])
                /\ performed' = Append(performed, "writeTagsFile")
                /\ runPC' = "writingFile"
                /\ UNCHANGED <<artifact, report, stats, scheduled, writeQueue, writeState>>
           ELSE /\ ScheduleWrite("finalize")
                /\ runPC' = "awaitFinalize"
                /\ UNCHANGED <<artifact, writing, performed, report, stats>>
  /\ UNCHANGED <<envVars, runVars, callVars, exitCode, posts, historicalTags, postsToProcess, historicalTagsMap,
                 results, merges, task, queue, chainRejected, adapterLog, sleeps, slotAssigns>>

\* await writeChain after scheduleWrite('finalize'), then the summary
FinalizeDone ==
  /\ runPC = "awaitFinalize"
  /\ writeState["finalize"] = "fulfilled"
  /\ runPC' = "done"
  /\ stats' = buildStatistics(Len(postsToProcess), merges, results)
  /\ writeState' = [writeState EXCEPT !["finalize"] = "none"]
  /\ UNCHANGED <<envVars, runVars, callVars, artifact, exitCode, posts, historicalTags, tagsMap, postsToProcess,
                 historicalTagsMap, results, merges, task, queue, writeQueue, writing,
                 chainRejected, adapterLog, sleeps, slotAssigns, scheduled, performed, report>>

\* a rejection reaches run(): Promise.all rejected on the first rejected
\* callback, or the awaited final write rejected; the top-level catch sets
\* the exit code
RunAbort ==
  /\ \/ runPC = "generating" /\ \E p \in Paths : task[p].pc = "rejected"
     \/ runPC = "awaitFinalize" /\ writeState["finalize"] = "rejected"
  /\ runPC' = "failed"
  /\ exitCode' = 1
  /\ UNCHANGED <<envVars, runVars, callVars, artifact, posts, historicalTags, tagsMap, postsToProcess,
                 historicalTagsMap, results, merges, task, queue, writeQueue, writing,
                 chainRejected, writeState, adapterLog, sleeps, slotAssigns, scheduled,
                 performed, report, stats>>

(***************************************************************************)
(* generateTags (llm.ts): one limit() callback per document                *)
(***************************************************************************)

\* A continuation of a settled promise is ready to run.  Node runs every such
\* continuation before it delivers the next I/O completion or timer, so the
\* events AdapterReturn, WakeUp, MkdirDone, WriteEnd and WriteFail wait for it.
ContinuationReady ==
  \/ runPC = "start"
  \/ /\ runPC = "generating"
     /\ \A p \in Range(postsToProcess) : task[p].pc = "done"
  \/ runPC = "generating" /\ \E p \in Paths : task[p].pc = "rejected"
  \/ runPC = "awaitFinalize" /\ writeState["finalize"] \in {"fulfilled", "rejected"}
  \/ queue # <<>> /\ HasFreeSlot(activeCount, config.maxConcurrency)
  \/ \E p \in Paths : /\ task[p].pc \in {"awaitWrite", "awaitFallbackWrite"}
                      /\ writeState[p] \in {"fulfilled", "rejected"}
  \/ writeQueue # <<>> /\ ~chainRejected /\ ChainIdle(writing)

\* p-limit dequeues the oldest callback when a slot is free; the callback
\* reads its historical tags and sends the first request (attempt 0, no delay)
StartTask(p) ==
  /\ queue # <<>> /\ Head(queue) = p
  /\ HasFreeSlot(activeCount, config.maxConcurrency)
  /\ queue' = Tail(queue)
  /\ task' = [task EXCEPT ![p] =
                [IdleTask EXCEPT !.pc = "calling",
                                 !.historyTags = IF Has(historicalTagsMap, p)
                                                 THEN Get(historicalTagsMap, p) ELSE <<>>]]
  /\ UNCHANGED <<envVars, runVars, callVars, artifact, runPC, exitCode, posts, historicalTags, tagsMap,
                 postsToProcess, historicalTagsMap, results, merges, writeQueue, writing,
                 chainRejected, writeState, adapterLog, sleeps, slotAssigns, scheduled,
                 performed, report, stats>>

\* a callback that throws on a failed response once the callback was called
AfterResponsePCThrows(dryRun, response) ==
  IF response.error # NoError THEN "rejected"
  ELSE IF dryRun THEN "done" ELSE "awaitWrite"

\* where the callback stands once onPostProcessed was called for a response:
\* it awaits the scheduled write, or in a dry run returns (an error carried
\* by the response is only noted, never thrown)
AfterResponsePC(dryRun, response) == IF dryRun THEN "done" ELSE "awaitWrite"

\* callChatCompletion returned (lines 156-161): record, merge, run the callback;
\* in a dry run the callback schedules nothing and lines 162-166 follow at once
AdapterReturn(p, outcome) ==
  /\ task[p].pc = "calling"
  /\ ~ContinuationReady
  /\ LET response == callChatCompletion(config.apiKey, outcome)
         merged == MergeFor(p, response.tags, task[p].historyTags, config.sortTags)
     IN /\ adapterLog' = [adapterLog EXCEPT ![p] =
                            [sent |-> @.sent + 1,
                             failed |-> @.failed + IF outcome.ok THEN 0 ELSE 1,
                             unparsed |-> @.unparsed +
                                IF outcome.ok /\ outcome.content.kind # "array" THEN 1 ELSE 0]]
        /\ results' = MapSet(results, p, response)
        /\ merges' = MapSet(merges, p, merged)
        /\ historicalTagsMap' = Set(historicalTagsMap, p, merged.tags)
        /\ OnPostProcessed(p, merged.tags)
        /\ task' = [task EXCEPT ![p] =
                      [@ EXCEPT !.pc = AfterResponsePC(config.dryRun, response),
                                !.response = response,
                                !.lastError = IF config.dryRun THEN response.error
                                              ELSE @]]
  /\ UNCHANGED <<envVars, runVars, callVars, artifact, runPC, exitCode, posts, historicalTags, postsToProcess,
                 queue, writing, chainRejected, sleeps, performed, report, stats>>

\* the callback's write finished (lines 162-166): note the response's error, return
AfterWrite(p) ==
  /\ task[p].pc = "awaitWrite"
  /\ writeState[p] = "fulfilled"
  /\ task' = [task EXCEPT ![p].pc = "done", ![p].lastError = task[p].response.error]
  /\ writeState' = [writeState EXCEPT ![p] = "none"]
  /\ UNCHANGED <<envVars, runVars, callVars, artifact, runPC, exitCode, posts, historicalTags, tagsMap,
                 postsToProcess, historicalTagsMap, results, merges, queue, writeQueue,
                 writing, chainRejected, adapterLog, sleeps, slotAssigns, scheduled,
                 performed, report, stats>>

\* the try block threw (lines 167-180): count the attempt; either back off
\* before the next one or, attempts exhausted, record the fallback
CatchRetry(p) ==
  /\ task[p].pc = "awaitWrite"
  /\ writeState[p] = "rejected"
  /\ LET nextAttempt == task[p].attempt + 1
         fallbackMerge == MergeFor(p, <<>>, task[p].historyTags, config.sortTags)
     IN IF nextAttempt <= DefaultRetries
        THEN /\ task' = [task EXCEPT ![p].pc = "sleeping", ![p].attempt = nextAttempt,
                                     ![p].lastError = WriteError]
             /\ sleeps' = [sleeps EXCEPT ![p] = Append(@, BackoffMs(nextAttempt))]
             /\ writeState' = [writeState EXCEPT ![p] = "none"]
             /\ UNCHANGED <<results, merges, historicalTagsMap, tagsMap, slotAssigns,
                            scheduled, writeQueue>>
        ELSE /\ task' = [task EXCEPT ![p].pc = "awaitFallbackWrite",
                                     ![p].attempt = nextAttempt,
                                     ![p].lastError = WriteError]
             /\ results' = MapSet(results, p, [tags |-> <<>>, error |-> WriteError])
             /\ merges' = MapSet(merges, p, fallbackMerge)
             /\ historicalTagsMap' = Set(historicalTagsMap, p, fallbackMerge.tags)
             /\ OnPostProcessed(p, fallbackMerge.tags)
             /\ UNCHANGED sleeps
  /\ UNCHANGED <<envVars, runVars, callVars, artifact, runPC, exitCode, posts, historicalTags, postsToProcess,
                 queue, writing, chainRejected, adapterLog, performed, report, stats>>

\* sleep(backoffMs) elapsed (lines 151-156): send the next request
WakeUp(p) ==
  /\ task[p].pc = "sleeping"
  /\ ~ContinuationReady
  /\ task' = [task EXCEPT ![p].pc = "calling"]
  /\ UNCHANGED <<envVars, runVars, callVars, artifact, runPC, exitCode, posts, historicalTags, tagsMap,
                 postsToProcess, historicalTagsMap, results, merges, queue, writeQueue,
                 writing, chainRejected, writeState, adapterLog, sleeps, slotAssigns,
                 scheduled, performed, report, stats>>

\* the fallback's callback settled (lines 178-180): a rejection leaves the
\* limit() callback rejected
FallbackSettle(p) ==
  /\ task[p].pc = "awaitFallbackWrite"
  /\ writeState[p] \in {"fulfilled", "rejected"}
  /\ task' = [task EXCEPT ![p].pc = IF writeState[p] = "rejected" THEN "rejected" ELSE "done"]
  /\ writeState' = [writeState EXCEPT ![p] = "none"]
  /\ UNCHANGED <<envVars, runVars, callVars, artifact, runPC, exitCode, posts, historicalTags, tagsMap,
                 postsToProcess, historicalTagsMap, results, merges, queue, writeQueue,
                 writing, chainRejected, adapterLog, sleeps, slotAssigns, scheduled,
                 performed, report, stats>>

(***************************************************************************)
(* The writes of tags.json (index.ts scheduleWrite, writer.ts)             *)
(***************************************************************************)

RemoveAt(seq, i) == SubSeq(seq, 1, i - 1) \o SubSeq(seq, i + 1, Len(seq))

\* the next continuation of writeChain runs: snapshot the index, then
\* writeTagsSnapshot asks for the directory
WriteBegin ==
  /\ writeQueue # <<>>
  /\ ~chainRejected
  /\ ChainIdle(writing)
  /\ writing' = Append(writing, [reason |-> Head(writeQueue), via |-> "chain",
                                 stage |-> "mkdir", snapshot |-> sortTagsMap(tagsMap),
                                 result |-> NoReport])
  /\ writeQueue' = Tail(writeQueue)
  /\ performed' = Append(performed, Head(writeQueue))
  /\ UNCHANGED <<envVars, runVars, callVars, artifact, runPC, exitCode, posts, historicalTags, tagsMap, postsToProcess,
                 historicalTagsMap, results, merges, task, queue, chainRejected, writeState,
                 adapterLog, sleeps, slotAssigns, scheduled, report, stats>>

\* fs.mkdir resolved: fs.writeFile opens tags.json for writing, which
\* truncates it
MkdirDone(i) ==
  /\ i \in 1..Len(writing)
  /\ writing[i].stage = "mkdir"
  /\ ~ContinuationReady
  /\ writing' = [writing EXCEPT ![i].stage = "writeFile"]
  /\ artifact' = PartialFile
  /\ UNCHANGED <<envVars, runVars, callVars, runPC, exitCode, posts, historicalTags, tagsMap, postsToProcess,
                 historicalTagsMap, results, merges, task, queue, writeQueue, chainRejected,
                 writeState, adapterLog, sleeps, slotAssigns, scheduled, performed, report,
                 stats>>

\* fs.writeFile resolved: the file holds JSON.stringify(snapshot, null, 2)
WriteEnd(i) ==
  /\ i \in 1..Len(writing)
  /\ writing[i].stage = "writeFile"
  /\ ~ContinuationReady
  /\ artifact' = JsonFile(writing[i].snapshot)
  /\ writing' = RemoveAt(writing, i)
  /\ IF writing[i].via = "chain"
     THEN /\ writeState' = [writeState EXCEPT ![writing[i].reason] = "fulfilled"]
          /\ UNCHANGED <<runPC, stats, report>>
     ELSE /\ runPC' = "done"
          /\ report' = writing[i].result
          /\ stats' = buildStatistics(Len(postsToProcess), merges, results)
          /\ UNCHANGED writeState
  /\ UNCHANGED <<envVars, runVars, callVars, exitCode, posts, historicalTags, tagsMap, postsToProcess,
                 historicalTagsMap, results, merges, task, queue, writeQueue, chainRejected,
                 adapterLog, sleeps, slotAssigns, scheduled, performed>>

\* fs.mkdir or fs.writeFile rejected: the continuation rejects, and so does
\* every continuation chained behind it, without running
WriteFail(i) ==
  /\ i \in 1..Len(writing)
  /\ disk = "failing"
  /\ ~ContinuationReady
  /\ writing' = RemoveAt(writing, i)
  /\ IF writing[i].via = "chain"
     THEN /\ chainRejected' = TRUE
          /\ writeState' = [w \in Waiters |->
                              IF w = writing[i].reason \/ w \in Range(writeQueue)
                              THEN "rejected" ELSE writeState[w]]
          /\ writeQueue' = <<>>
          /\ UNCHANGED <<runPC, exitCode>>
     ELSE /\ runPC' = "failed"
          /\ exitCode' = 1
          /\ UNCHANGED <<chainRejected, writeState, writeQueue>>
  /\ UNCHANGED <<envVars, runVars, callVars, artifact, posts, historicalTags, tagsMap, postsToProcess,
                 historicalTagsMap, results, merges, task, queue, adapterLog, sleeps,
                 slotAssigns, scheduled, performed, report, stats>>

(***************************************************************************)
(* A further invocation of the command (index.ts run)                      *)
(***************************************************************************)

\* the command is invoked again, with the same options, configuration and
\* corpus, after a run that completed: a new process starts from the
\* tags.json the previous one left
Rerun ==
  /\ runPC = "done"
  /\ runNo < MaxRuns
  /\ runNo' = runNo + 1
  /\ prevArtifact' = artifact
  /\ prevResults' = results
  /\ runPC' = "start"
  /\ exitCode' = 0
  /\ posts' = <<>>
  /\ historicalTags' = <<>>
  /\ tagsMap' = <<>>
  /\ postsToProcess' = <<>>
  /\ historicalTagsMap' = <<>>
  /\ results' = EmptyMap
  /\ merges' = EmptyMap
  /\ task' = [p \in Paths |-> IdleTask]
  /\ queue' = <<>>
  /\ writeQueue' = <<>>
  /\ writing' = <<>>
  /\ chainRejected' = FALSE
  /\ writeState' = [w \in Waiters |-> "none"]
  /\ adapterLog' = [p \in Paths |-> [sent |-> 0, failed |-> 0, unparsed |-> 0]]
  /\ sleeps' = [p \in Paths |-> <<>>]
  /\ slotAssigns' = [t \in Paths |-> [k \in Paths |-> 0]]
  /\ scheduled' = <<>>
  /\ performed' = <<>>
  /\ report' = NoReport
  /\ stats' = NoStatistics
  /\ UNCHANGED <<envVars, callVars, artifact>>

(***************************************************************************)
(* Specifications                                                          *)
(***************************************************************************)

Next ==
  \/ RunStart
  \/ Rerun
  \/ Finalize
  \/ FinalizeDone
  \/ RunAbort
  \/ \E p \in Paths : StartTask(p)
  \/ \E p \in Paths : \E outcome \in OutcomesFor(p) : AdapterReturn(p, outcome)
  \/ \E p \in Paths : AfterWrite(p)
  \/ \E p \in Paths : CatchRetry(p)
  \/ \E p \in Paths : WakeUp(p)
  \/ \E p \in Paths : FallbackSettle(p)
  \/ WriteBegin
  \/ \E i \in 1..Len(writing) : MkdirDone(i)
  \/ \E i \in 1..Len(writing) : WriteEnd(i)
  \/ \E i \in 1..Len(writing) : WriteFail(i)

Spec == Init /\ [][Next]_vars

\* the runs explored for the progress properties: tags sorted, credential
\* present, no drafts, and a failing disk only with an empty initial index
LiveInit ==
  /\ Init
  /\ config.sortTags /\ config.apiKey /\ drafts = {}
  /\ disk = "failing" => artifact = AbsentFile /\ config.maxConcurrency < DefaultMaxConcurrency

\* the event loop keeps running while a continuation, a request, a timer or
\* a file operation is pending
FairSpec == LiveInit /\ [][Next]_vars /\ WF_vars(Next)

(***************************************************************************)
(* mergeTags called on its own (taxonomy.ts)                               *)
(***************************************************************************)

\* the longest list of proposed tags that is tried
MaxProposed == 2

\* the tags a response can propose: plain, upper case, with separators, and
\* one that normalises to the empty tag
ProposedPool ==
  { <<"a">>, <<"B">>, <<"n">>, <<"A", "_", "_", "b">>, <<"/", " ">> }

\* the lists of at most n tags of a pool
RECURSIVE ListsUpTo(_, _)
ListsUpTo(pool, n) ==
  IF n = 0 THEN {<<>>}
  ELSE LET shorter == ListsUpTo(pool, n - 1)
       IN shorter \cup {Append(list, tag) : list \in shorter, tag \in pool}

\* historical tags as tags.json can hold them (hand-edited entries included)
HistoricalInputs ==
  { <<>>,
    << <<"A">> >>,
    << <<"a", " ", " ", "B">>, <<"b">> >>,
    << <<"n">>, <<"N">>, <<>>, <<"c">> >> }

\* own tags as a front matter can hold them
FromSourceInputs ==
  { <<>>,
    << <<"b">> >>,
    << <<"A", "_", "b">>, <<"a">> >>,
    << <<" ", "B", " ">>, <<"a", "/", "b">>, <<"_">> >> }

\* taxonomy rules: categories "lang" and "tool", with includes, with a
\* literal pattern, with a malformed pattern
LangRules ==
  { [category |-> "lang", includes |-> << <<"A", "_", "B">> >>, pattern |-> NoPattern],
    [category |-> "lang", includes |-> <<>>, pattern |-> LiteralPattern(<<"A">>)],
    [category |-> "lang", includes |-> << <<"n">> >>, pattern |-> MalformedPattern] }

ToolRules ==
  { [category |-> "tool", includes |-> << <<"a">> >>, pattern |-> LiteralPattern(<<"b">>)],
    [category |-> "tool", includes |-> <<>>, pattern |-> MalformedPattern] }

TaxonomyInputs ==
  {NoTaxonomyRules, TaxonomyRules(<<>>)}
    \cup {TaxonomyRules(<<rule>>) : rule \in LangRules \cup ToolRules}
    \cup {TaxonomyRules(<<lang, tool>>) : lang \in LangRules, tool \in ToolRules}
    \cup {TaxonomyRules(<<tool, lang>>) : lang \in LangRules, tool \in ToolRules}

MergeInputs ==
  [fromSource : FromSourceInputs,
   recommended : ListsUpTo(ProposedPool, MaxProposed),
   historical : HistoricalInputs,
   sortTags : BOOLEAN,
   taxonomyRules : TaxonomyInputs]

\* no generate run is made
NoRun ==
  /\ config = [dryRun |-> TRUE, filter |-> <<>>, includeDrafts |-> FALSE, apiKey |-> FALSE,
               maxConcurrency |-> DefaultMaxConcurrency, sortTags |-> TRUE]
  /\ full = FALSE
  /\ files = {}
  /\ drafts = {}
  /\ disk = "healthy"
  /\ artifact = AbsentFile
  /\ RunInit

\* only the arguments of the call are chosen
MergeInit ==
  /\ NoRun
  /\ mergeArgs \in MergeInputs
  /\ mergeResult = NoMergeResult
  /\ writerArgs = NoWriterArgs
  /\ writerResult = NoWriterResult
  /\ NoApply

\* mergeTags(fromSource, recommended, historical, config) returns
CallMergeTags ==
  /\ ~mergeResult.returned
  /\ mergeArgs \in MergeInputs
  /\ LET result == mergeTagsResult(mergeArgs.fromSource, mergeArgs.recommended,
                                   mergeArgs.historical, mergeArgs.sortTags,
                                   mergeArgs.taxonomyRules)
     IN mergeResult' = [returned |-> TRUE, tags |-> result.tags, added |-> result.added,
                        classification |-> result.classification]
  /\ UNCHANGED <<envVars, runVars, generateVars, applyVars, mergeArgs, writerArgs,
                 writerResult>>

MergeNext == CallMergeTags

MergeSpec == MergeInit /\ [][MergeNext]_vars

(***************************************************************************)
(* readTagsFile and buildDiff called on their own (writer.ts)              *)
(***************************************************************************)

\* indexes of two documents whose tag lists differ in order, in length and
\* in content, and whose entries stand in either order
IndexInputs ==
  { <<>>,
    << [path |-> "a.md", tags |-> << <<"a">>, <<"b">> >>] >>,
    << [path |-> "a.md", tags |-> << <<"b">>, <<"a">> >>] >>,
    << [path |-> "a.md", tags |-> << <<"a">> >>] >>,
    << [path |-> "b.md", tags |-> <<>>] >>,
    << [path |-> "a.md", tags |-> << <<"a">>, <<"b">> >>], [path |-> "b.md", tags |-> << <<"b">> >>] >>,
    << [path |-> "b.md", tags |-> << <<"b">> >>], [path |-> "a.md", tags |-> << <<"a">>, <<"b">> >>] >>,
    << [path |-> "b.md", tags |-> <<>>], [path |-> "a.md", tags |-> << <<"a">>, <<"a">> >>] >> }

\* what tags.json can be when it is read
FileInputs ==
  {AbsentFile, PartialFile, ScalarFile, UnreadableFile} \cup {JsonFile(map) : map \in IndexInputs}

WriterInputs == [file : FileInputs, existing : IndexInputs, next : IndexInputs]

WriterInit ==
  /\ NoRun
  /\ mergeArgs = NoMergeArgs
  /\ mergeResult = NoMergeResult
  /\ writerArgs \in WriterInputs
  /\ writerResult = NoWriterResult
  /\ NoApply

\* what no call of writer.ts on its own changes
writerFrame ==
  <<envVars, runVars, generateVars, applyVars, mergeArgs, mergeResult, writerArgs>>

\* readTagsFile(filePath, logger) returns
CallReadTagsFile ==
  /\ ~writerResult.read.returned
  /\ LET result == readTagsFile(writerArgs.file)
     IN writerResult' = [writerResult EXCEPT
                           !.read = [returned |-> TRUE, map |-> result.map,
                                     warned |-> result.warned]]
  /\ UNCHANGED writerFrame

\* buildDiff(existing, next) returns
CallBuildDiff ==
  /\ ~writerResult.diff.returned
  /\ LET result == buildDiff(writerArgs.existing, writerArgs.next)
     IN writerResult' = [writerResult EXCEPT
                           !.diff = [returned |-> TRUE, updatedPaths |-> result.updatedPaths,
                                     removedPaths |-> result.removedPaths]]
  /\ UNCHANGED writerFrame

WriterNext == CallReadTagsFile \/ CallBuildDiff

WriterSpec == WriterInit /\ [][WriterNext]_vars

(***************************************************************************)
(* The frontmatter command: syncFrontmatterFromTags (taxonomy.ts)          *)
(***************************************************************************)

\* invocations of the frontmatter command in a row
MaxApplies == 2

\* the options of the command are chosen, no generate run is made
ApplyInit ==
  /\ config \in [dryRun : BOOLEAN,
                 filter : FilterChoices,
                 includeDrafts : BOOLEAN,
                 apiKey : {FALSE},
                 maxConcurrency : {DefaultMaxConcurrency},
                 sortTags : BOOLEAN]
  /\ full = FALSE
  /\ files \in ApplyFiles
  /\ drafts \in {{}, {"c.md"} \cap files}
  /\ disk = "healthy"
  /\ artifact \in ApplyArtifacts
  /\ RunInit
  /\ mergeArgs = NoMergeArgs
  /\ mergeResult = NoMergeResult
  /\ writerArgs = NoWriterArgs
  /\ writerResult = NoWriterResult
  /\ documents = InitialDocuments
  /\ applyPC = "start"
  /\ applyEntries = <<>>
  /\ applyPosts = <<>>
  /\ applyPos = 1
  /\ applyResult = NoSyncResult
  /\ applyWrites = <<>>
  /\ applyNo = 1
  /\ applyPrev = NoPrevApply

\* what the frontmatter command leaves alone
applyFrame ==
  <<full, files, drafts, disk, runVars, generateVars, mergeArgs, mergeResult, writerArgs,
    writerResult>>

\* the posts of loadPosts, each with the content its file has when it is read
LoadedPosts ==
  LET loaded == loadPosts(files, drafts, config.filter, config.includeDrafts)
  IN [i \in 1..Len(loaded) |->
        [path |-> loaded[i],
         frontMatterTags |-> ensureArray(documents[loaded[i]].tags),
         document |-> documents[loaded[i]]]]

\* postMap.get(relativePath) is defined
InPostMap(path) == \E i \in 1..Len(applyPosts) : applyPosts[i].path = path
PostOf(path) == applyPosts[CHOOSE i \in 1..Len(applyPosts) : applyPosts[i].path = path]

\* readTagsFile, the early return on an empty index, loadPosts
ApplyStart ==
  /\ applyPC = "start"
  /\ LET tagsRead == readTagsFile(artifact).map
     IN IF Len(tagsRead) = 0
        THEN /\ applyPC' = "done"
             /\ applyResult' = NoSyncResult
             /\ UNCHANGED <<applyEntries, applyPosts>>
        ELSE /\ applyPC' = "loop"
             /\ applyEntries' = tagsRead
             /\ applyPosts' = LoadedPosts
             /\ applyResult' = [NoSyncResult EXCEPT !.totalEntries = Len(tagsRead)]
  /\ UNCHANGED <<config, applyFrame, documents, applyPos, applyWrites, applyNo, applyPrev>>

\* the class of an entry whose document is not in postMap
NotLoadedKind(path) ==
  IF FilterApplied(config.filter) THEN "filteredOut"
  ELSE IF path \in files THEN "filteredOut"
  ELSE "missing"

\* a dry run that leaves the document out of `updated`
ReportUpdatedOnlyWhenWritten(result, path) ==
  IF config.dryRun THEN result ELSE [result EXCEPT !.updated = Append(@, path)]

\* updated.push(relativePath)
ReportUpdated(result, path) == [result EXCEPT !.updated = Append(@, path)]

\* fs.writeFile is called when options.dryRun is false
WritesFile == ~config.dryRun

\* an apply that reports every loaded document as updated
TagsUpToDateNever(expectedTags, currentTags) == FALSE

\* arraysEqual(expectedTags, currentTags)
TagsUpToDate(expectedTags, currentTags) == frontmatterArraysEqual(expectedTags, currentTags)

\* one turn of the loop over the entries of the index
ApplyEntry ==
  /\ applyPC = "loop"
  /\ applyPos <= Len(applyEntries)
  /\ LET path == applyEntries[applyPos].path
         tagList == applyEntries[applyPos].tags
     IN IF ~InPostMap(path)
        THEN /\ applyResult' =
                  IF NotLoadedKind(path) = "missing"
                  THEN [applyResult EXCEPT !.missing = Append(@, path)]
                  ELSE [applyResult EXCEPT !.filteredOut = Append(@, path)]
             /\ UNCHANGED <<documents, applyWrites>>
        ELSE LET post == PostOf(path)
                 expectedTags == dedupeTags(tagList, config.sortTags)
                 currentTags == dedupeTags(post.frontMatterTags, config.sortTags)
             IN IF TagsUpToDate(expectedTags, currentTags)
                THEN /\ applyResult' = [applyResult EXCEPT !.unchanged = Append(@, path)]
                     /\ UNCHANGED <<documents, applyWrites>>
                ELSE /\ applyResult' = ReportUpdated(applyResult, path)
                     /\ IF WritesFile
                        THEN /\ documents' = [documents EXCEPT
                                                ![path] = rewriteDocument(post.document, expectedTags)]
                             /\ applyWrites' = Append(applyWrites, path)
                        ELSE UNCHANGED <<documents, applyWrites>>
  /\ applyPos' = applyPos + 1
  /\ UNCHANGED <<config, applyFrame, applyPC, applyEntries, applyPosts, applyNo, applyPrev>>

\* the loop is over: the result is returned
ApplyReturn ==
  /\ applyPC = "loop"
  /\ applyPos > Len(applyEntries)
  /\ applyPC' = "done"
  /\ UNCHANGED <<config, applyFrame, documents, applyEntries, applyPosts, applyPos,
                 applyResult, applyWrites, applyNo, applyPrev>>

\* the command is invoked again on the same index and corpus, with the same
\* options but for --dry-run
ApplyAgain ==
  /\ applyPC = "done"
  /\ applyNo < MaxApplies
  /\ \E dryRun \in BOOLEAN : config' = [config EXCEPT !.dryRun = dryRun]
  /\ applyPrev' = [dryRun |-> config.dryRun, result |-> applyResult, writes |-> applyWrites]
  /\ applyNo' = applyNo + 1
  /\ applyPC' = "start"
  /\ applyEntries' = <<>>
  /\ applyPosts' = <<>>
  /\ applyPos' = 1
  /\ applyResult' = NoSyncResult
  /\ applyWrites' = <<>>
  /\ UNCHANGED <<applyFrame, documents>>

ApplyNext == ApplyStart \/ ApplyEntry \/ ApplyReturn \/ ApplyAgain

ApplySpec == ApplyInit /\ [][ApplyNext]_vars

(***************************************************************************)
(* Properties                                                              *)
(***************************************************************************)

\* the historical tags of a document as the run read them
HistoricalOf(path) == IF Has(historicalTags, path) THEN Get(historicalTags, path) ELSE <<>>

Settled(p) == task[p].pc \in SettledPCs

TransportErrors == {TransportErrorFor(p) : p \in Paths}

\* C1: a document ends with a transport failure recorded only after
\* maxRetries further attempts were made, and a document whose requests
\* failed k times before one succeeded ends without error after exactly k
\* backoff delays.
C1_RetryOnTransportFailure ==
  \A p \in Paths :
    (task[p].pc = "done" /\ p \in DOMAIN results) =>
       /\ results[p].error \in TransportErrors => adapterLog[p].sent = DefaultRetries + 1
       /\ adapterLog[p].failed <= DefaultRetries =>
            /\ results[p].error = NoError
            /\ Len(sleeps[p]) = adapterLog[p].failed

\* C2: a settled document all of whose requests failed has the last error
\* and no proposed tags recorded, nothing added, and as final tags the merge
\* of its historical and own tags alone.
C2_FallbackToExistingTags ==
  \A p \in Paths :
    (Settled(p) /\ adapterLog[p].sent > 0 /\ adapterLog[p].failed = adapterLog[p].sent) =>
       /\ results[p].error # NoError
       /\ results[p].error = task[p].lastError
       /\ results[p].tags = <<>>
       /\ merges[p].added = <<>>
       /\ merges[p].tags = dedupe(dedupe(HistoricalOf(p), FALSE) \o
                                  dedupe(FrontMatterTags(p), FALSE), config.sortTags)
       /\ Has(tagsMap, p) /\ Get(tagsMap, p) = merges[p].tags

C2_Witness ==
  \E p \in Paths :
    /\ task[p].pc = "done"
    /\ adapterLog[p].sent > 0 /\ adapterLog[p].failed = adapterLog[p].sent
    /\ Has(historicalTags, p)
    /\ merges[p].tags # <<>>

\* a write of tags.json was rejected during the run
WriteRejected ==
  \/ chainRejected
  \/ runPC = "failed" /\ posts # <<>> /\ postsToProcess = <<>>

\* every document handed to generateTags has its merge recorded and its
\* callback fired, and the summary counts the failed documents
AllProcessed ==
  /\ runPC = "done"
  /\ \A p \in Range(postsToProcess) :
       p \in DOMAIN merges /\ p \in DOMAIN results /\ slotAssigns[p][p] >= 1
  /\ stats.processedPosts = Len(postsToProcess)
  /\ stats.llmFailures =
       Cardinality({p \in Range(postsToProcess) : results[p].error # NoError})

\* C3: once generation has started, and unless a write of the artifact is
\* rejected, the run reaches its summary with every selected document merged
\* and called back, whatever requests failed, the failures being counted.
C3_NoSiblingCancellation == (runPC = "generating") ~> (WriteRejected \/ AllProcessed)

C3_Witness ==
  /\ AllProcessed
  /\ stats.llmFailures >= 1
  /\ stats.llmFailures < stats.processedPosts

\* C4: never more than maxConcurrency documents in flight, maxConcurrency
\* is at least 1, and every queued document is eventually started.
C4_BoundedConcurrency ==
  /\ [](activeCount <= config.maxConcurrency /\ config.maxConcurrency >= 1)
  /\ \A p \in Paths : (task[p].pc = "queued") ~> (task[p].pc # "queued")

C4_Witness ==
  /\ activeCount = config.maxConcurrency
  /\ config.maxConcurrency >= 2
  /\ queue # <<>>

\* the reasons of the writes that went through writeChain
ChainWrites == SelectSeq(performed, LAMBDA reason : reason # "writeTagsFile")

IsPrefix(a, b) == Len(a) <= Len(b) /\ SubSeq(b, 1, Len(a)) = a

\* C5: at most one write of the artifact is in progress, and the chained
\* writes start in the order in which they were scheduled.
C5_SerializedWrites ==
  /\ Len(writing) <= 1
  /\ IsPrefix(ChainWrites, scheduled)

C5_Witness ==
  /\ Len(writing) = 1
  /\ writeQueue # <<>>
  /\ Len(performed) >= 1

\* C6: a document's slot of the in-memory index is assigned by its own
\* task only, at most once, and exactly once when the task has settled.
C6_SlotAssignedOnce ==
  \A t \in Paths : \A k \in Paths :
    /\ t # k => slotAssigns[t][k] = 0
    /\ slotAssigns[t][t] <= 1
    /\ Settled(t) => slotAssigns[t][t] = 1

\* C7: in a run that writes, every document whose task has finished has its
\* merged tags in tags.json.
C7_FinishedDocumentsPersisted ==
  ~config.dryRun =>
    \A p \in Paths :
      task[p].pc = "done" =>
        /\ artifact.kind = "json"
        /\ Has(artifact.entries, p)
        /\ Get(artifact.entries, p) = merges[p].tags

SortedByPath(map) ==
  \A i \in 1..Len(map) : \A j \in 1..Len(map) :
    i < j => PathRank(map[i].path) < PathRank(map[j].path)

SameEntries(a, b) ==
  /\ Keys(a) = Keys(b)
  /\ \A k \in Keys(a) : Get(a, k) = Get(b, k)

\* C8: when a run that writes has completed, the last write was the final
\* one, every write before it was an incremental commit, nothing is pending,
\* and tags.json holds the in-memory index sorted by identifier.
C8_FinalWriteAuthoritative ==
  (runPC = "done" /\ ~config.dryRun) =>
     /\ writing = <<>> /\ writeQueue = <<>>
     /\ performed # <<>>
     /\ performed[Len(performed)] \in {"finalize", "writeTagsFile"}
     /\ \A i \in 1..(Len(performed) - 1) : performed[i] \in Paths
     /\ artifact.kind = "json"
     /\ SameEntries(artifact.entries, tagsMap)
     /\ SortedByPath(artifact.entries)

C8_Witness ==
  /\ runPC = "done" /\ ~config.dryRun
  /\ Len(performed) >= 3
  /\ ~SortedByPath(tagsMap)

\* the identifiers held by tags.json
PersistedIds == Keys(readTagsFile(artifact).map)

\* C9 as stated: after any generate run without filter, tags.json holds no
\* identifier absent from the pass.
C9_NoStaleIdentifierAfterRun ==
  (runPC \in {"done", "returned"} /\ ~FilterApplied(config.filter)) =>
     PersistedIds \subseteq Range(posts)

\* C9 amended: after a completed run that writes, without filter and with a
\* non-empty pass, tags.json holds no identifier absent from the pass.
C9_NoStaleIdentifierAfterFinalize ==
  (runPC = "done" /\ ~config.dryRun /\ ~FilterApplied(config.filter)) =>
     /\ artifact.kind = "json"
     /\ PersistedIds \subseteq Range(posts)

C9_Witness ==
  /\ runPC = "done" /\ ~config.dryRun /\ ~FilterApplied(config.filter)
  /\ \E k \in Keys(historicalTags) : k \notin Range(posts)

\* an index keeps every historical identifier, and the historical tags of
\* the documents that were not processed
KeepsHistorical(map) ==
  /\ Keys(historicalTags) \subseteq Keys(map)
  /\ \A k \in Keys(historicalTags) \ Range(postsToProcess) :
       Get(map, k) = Get(historicalTags, k)

\* C10: with a filter active, the in-memory index, every snapshot being
\* written and every complete tags.json keep all historical entries.
C10_FilteredRunDeletesNothing ==
  (FilterApplied(config.filter) /\ runPC \notin {"start", "returned"}) =>
     /\ KeepsHistorical(tagsMap)
     /\ \A i \in 1..Len(writing) : KeepsHistorical(writing[i].snapshot)
     /\ artifact.kind = "json" => KeepsHistorical(artifact.entries)

C10_Witness ==
  /\ FilterApplied(config.filter)
  /\ runPC = "done" /\ ~config.dryRun
  /\ \E k \in Keys(historicalTags) : k \notin Range(posts)
  /\ \E k \in Range(postsToProcess) : Has(artifact.entries, k)

\* C11: in a dry run no step changes tags.json, schedules a write or starts
\* one, neither at a completion callback nor at finalize, and the step that
\* ends the run reports, as not written, the diff between the persisted index
\* and the pruned, sorted index.
C11_DryRunNeverWrites ==
  [][config.dryRun =>
       /\ artifact' = artifact
       /\ scheduled' = <<>> /\ writeQueue' = <<>> /\ writing' = <<>> /\ performed' = <<>>
       /\ (runPC # "done" /\ runPC' = "done") =>
            LET diff == buildDiff(readTagsFile(artifact).map, sortTagsMap(tagsMap'))
            IN /\ ~report'.written /\ ~report'.created
               /\ report'.updatedPaths = diff.updatedPaths \o diff.removedPaths]_vars

C11_Witness ==
  /\ config.dryRun /\ runPC = "done"
  /\ \E p \in Paths : slotAssigns[p][p] >= 1
  /\ report.updatedPaths # <<>>
  /\ artifact.kind = "json"

\* C12: without --full a loaded document that has an entry in the index read
\* at the start gets no request, is not handed to generateTags, and keeps its
\* entry unchanged in the in-memory index and in the tags.json of a completed
\* writing run, while every loaded document without an entry is handed to
\* generateTags; with --full every loaded document is handed to generateTags
\* and has been requested once the run has completed.
C12_IncrementalSkipsIndexed ==
  /\ ~full =>
       \A p \in Range(posts) :
         IF Has(historicalTags, p)
         THEN /\ adapterLog[p].sent = 0
              /\ p \notin Range(postsToProcess)
              /\ Has(tagsMap, p) /\ Get(tagsMap, p) = Get(historicalTags, p)
              /\ (runPC = "done" /\ ~config.dryRun) =>
                   /\ Has(artifact.entries, p)
                   /\ Get(artifact.entries, p) = Get(historicalTags, p)
         ELSE p \in Range(postsToProcess)
  /\ full =>
       /\ postsToProcess = posts
       /\ runPC = "done" => \A p \in Range(posts) : adapterLog[p].sent >= 1

C12_Witness ==
  /\ ~full /\ runPC = "done" /\ ~config.dryRun
  /\ \E p \in Range(posts) : Has(historicalTags, p) /\ Get(historicalTags, p) # <<>>
  /\ \E p \in Range(postsToProcess) : adapterLog[p].sent >= 1

\* C13: with the credential missing, a run that loaded at least one document
\* has failed with exit status 1, no request was sent, no merge was recorded
\* and no write of tags.json was started.
C13_MissingCredentialIsFatal ==
  (~config.apiKey /\ runPC \notin {"start", "returned"}) =>
     /\ runPC = "failed" /\ exitCode = 1
     /\ \A p \in Paths : adapterLog[p].sent = 0
     /\ merges = EmptyMap
     /\ performed = <<>> /\ scheduled = <<>>

\* the documents whose generation failed: their recorded response carries
\* an error
FailedDocuments == {p \in DOMAIN results : results[p].error # NoError}

\* C14: a run in which the generation of a document failed, and in which no
\* write of tags.json was rejected, does not abort, and when it has completed
\* its exit status is not zero.
C14_FailureGivesNonZeroExit ==
  (FailedDocuments # {} /\ ~WriteRejected) =>
     /\ runPC # "failed"
     /\ runPC = "done" => exitCode # 0

\* the responses of this run repeat those of the previous run
SameGenerationOutput ==
  \A p \in DOMAIN results \cap DOMAIN prevResults : results[p] = prevResults[p]

\* C15: when a run that completed is followed by a run with the same
\* options on the same corpus, whose responses repeat those of the first,
\* the second run, once completed, leaves tags.json exactly as the first
\* left it, without --full and with --full.
C15_RerunIsIdempotent ==
  (runNo > 1 /\ runPC = "done" /\ SameGenerationOutput) => artifact = prevArtifact

C15_Witness ==
  /\ runNo > 1 /\ runPC = "done" /\ SameGenerationOutput
  /\ full /\ ~config.dryRun /\ ~config.sortTags
  /\ \E p \in DOMAIN results :
       /\ p \in DOMAIN prevResults
       /\ results[p].error = NoError
       /\ Len(merges[p].tags) >= 3
       /\ merges[p].added = <<>>

(***************************************************************************)
(* Properties of mergeTags                                                 *)
(***************************************************************************)

\* historical, then own, then proposed tags, as passed to mergeTags
Concatenation == mergeArgs.historical \o mergeArgs.fromSource \o mergeArgs.recommended

\* the case-insensitive key of a tag
KeyOf(tag) == toLowerCase(normalizeTag(tag))

\* the positions of the concatenation that hold a tag (not an empty one)
TagPositions == {i \in 1..Len(Concatenation) : normalizeTag(Concatenation[i]) # <<>>}

\* the first position of the concatenation that holds a key
FirstPosition(key) ==
  CHOOSE i \in TagPositions :
    /\ KeyOf(Concatenation[i]) = key
    /\ \A j \in TagPositions : KeyOf(Concatenation[j]) = key => i <= j

\* C16: the tags mergeTags returns hold each key of the concatenation
\* historical, own, proposed exactly once, each with the (normalised) text of
\* its first occurrence; with sort off they stand in the order of those
\* first occurrences, with sort on in the order of the locale comparison.
C16_OrderedUnion ==
  mergeResult.returned =>
    LET tags == mergeResult.tags
    IN /\ {KeyOf(tags[i]) : i \in 1..Len(tags)} =
            {KeyOf(Concatenation[i]) : i \in TagPositions}
       /\ \A i, j \in 1..Len(tags) : i # j => KeyOf(tags[i]) # KeyOf(tags[j])
       /\ \A i \in 1..Len(tags) :
            tags[i] = normalizeTag(Concatenation[FirstPosition(KeyOf(tags[i]))])
       /\ \A i, j \in 1..Len(tags) :
            i < j => IF mergeArgs.sortTags
                     THEN localeLess(tags[i], tags[j])
                     ELSE FirstPosition(KeyOf(tags[i])) < FirstPosition(KeyOf(tags[j]))

C16_Witness ==
  /\ mergeResult.returned /\ ~mergeArgs.sortTags
  /\ Len(mergeResult.tags) >= 3
  /\ Len(Concatenation) > Len(mergeResult.tags) + 1
  /\ \E i \in 1..Len(mergeResult.tags) : mergeResult.tags[i] # KeyOf(mergeResult.tags[i])
  /\ mergeResult.tags # sortLocale(mergeResult.tags)

\* a tag in normal form: not empty, no underscore or slash, no space at
\* either end, no two spaces in a row
IsNormalized(tag) ==
  /\ tag # <<>>
  /\ tag[1] # " " /\ tag[Len(tag)] # " "
  /\ \A i \in 1..Len(tag) : tag[i] \notin {"_", "/"}
  /\ \A i \in 1..(Len(tag) - 1) : ~(tag[i] = " " /\ tag[i + 1] = " ")

\* the words of a tag: its maximal runs of non-separator characters, in
\* lower case; two tags differ only by case and separator style when they
\* have the same words
RECURSIVE SplitWords(_, _, _)
SplitWords(rest, word, done) ==
  IF rest = <<>> THEN (IF word = <<>> THEN done ELSE Append(done, word))
  ELSE IF IsSeparator(rest[1])
       THEN SplitWords(Tail(rest), <<>>, IF word = <<>> THEN done ELSE Append(done, word))
       ELSE SplitWords(Tail(rest), Append(word, LowerChar(rest[1])), done)

Words(tag) == SplitWords(tag, <<>>, <<>>)

\* C17: every tag that mergeTags returns, in tags and in added, is in normal
\* form, no two returned tags are equal ignoring case, and all the input
\* tags that have the same words (that differ only by case, white space,
\* underscore or slash style) are represented by exactly one returned tag.
C17_ValidTagSet ==
  mergeResult.returned =>
    LET tags == mergeResult.tags
    IN /\ \A i \in 1..Len(tags) : IsNormalized(tags[i])
       /\ \A i \in 1..Len(mergeResult.added) : IsNormalized(mergeResult.added[i])
       /\ \A i, j \in 1..Len(tags) : i # j => toLowerCase(tags[i]) # toLowerCase(tags[j])
       /\ \A i \in 1..Len(Concatenation) :
            Words(Concatenation[i]) # <<>> =>
              Cardinality({k \in 1..Len(tags) : Words(tags[k]) = Words(Concatenation[i])}) = 1
       /\ \A k \in 1..Len(tags) :
            \E i \in 1..Len(Concatenation) : Words(Concatenation[i]) = Words(tags[k])

C17_Witness ==
  /\ mergeResult.returned
  /\ \E i, j \in 1..Len(Concatenation) :
       /\ Concatenation[i] # Concatenation[j]
       /\ toLowerCase(Concatenation[i]) # toLowerCase(Concatenation[j])
       /\ Words(Concatenation[i]) = Words(Concatenation[j])
       /\ Len(Words(Concatenation[i])) >= 2
  /\ \E i \in 1..Len(Concatenation) : Words(Concatenation[i]) = <<>>
  /\ Len(mergeResult.tags) >= 2

\* the words of the tags that the historical and the own list hold
ExistingWords ==
  {Words((mergeArgs.historical \o mergeArgs.fromSource)[i]) :
     i \in 1..Len(mergeArgs.historical \o mergeArgs.fromSource)} \ {<<>>}

\* C18: `added` is the sub-sequence of the returned tags whose words occur
\* in neither the historical nor the own tags, so that a proposed tag which
\* the historical or own tags already hold, in any case or separator style,
\* is not in `added`.
C18_AddedIsNewOnly ==
  mergeResult.returned =>
    /\ mergeResult.added =
         SelectSeq(mergeResult.tags, LAMBDA tag : Words(tag) \notin ExistingWords)
    /\ \A i \in 1..Len(mergeArgs.recommended) :
         Words(mergeArgs.recommended[i]) \in ExistingWords =>
           \A k \in 1..Len(mergeResult.added) :
             Words(mergeResult.added[k]) # Words(mergeArgs.recommended[i])

C18_Witness ==
  /\ mergeResult.returned
  /\ mergeResult.added # <<>>
  /\ Len(mergeResult.added) < Len(mergeResult.tags)
  /\ \E i \in 1..Len(mergeArgs.recommended) :
       /\ Words(mergeArgs.recommended[i]) \in ExistingWords
       /\ \A j \in 1..Len(mergeArgs.historical \o mergeArgs.fromSource) :
            (mergeArgs.historical \o mergeArgs.fromSource)[j] # mergeArgs.recommended[i]
       /\ \A j \in 1..Len(mergeArgs.historical) :
            Words(mergeArgs.historical[j]) # Words(mergeArgs.recommended[i])

(***************************************************************************)
(* Properties of the classification                                        *)
(***************************************************************************)

\* the declared categories
Declared == mergeArgs.taxonomyRules.entries

\* the tag is one of the explicit includes of the i-th declared category
InIncludes(i, tag) ==
  \E k \in 1..Len(Declared[i].includes) : Words(Declared[i].includes[k]) = Words(tag)

\* the pattern of the i-th declared category is well formed and matches the tag
PatternMatches(i, tag) ==
  /\ Declared[i].pattern.kind = "literal"
  /\ includes(toLowerCase(tag), toLowerCase(Declared[i].pattern.text))

Classified == mergeResult.returned /\ mergeArgs.taxonomyRules.defined

\* C19 as stated: a returned tag that is in the includes of a category (the
\* first one that lists it) is classified in that category, whatever
\* patterns of other categories it matches.
C19_IncludesBeatsAnyPattern ==
  Classified =>
    \A tag \in DOMAIN mergeResult.classification : \A i \in 1..Len(Declared) :
      (InIncludes(i, tag) /\ \A j \in 1..(i - 1) : ~InIncludes(j, tag)) =>
         mergeResult.classification[tag] = Declared[i].category

\* C19 amended: a returned tag is classified in the first category, in
\* declared order, whose includes hold it or whose pattern matches it; so a
\* tag in the includes of a category is classified there when no category
\* declared before it matches the tag, even if the pattern of a category
\* declared after it matches too.
C19_FirstDeclaredMatchWins ==
  Classified =>
    \A tag \in DOMAIN mergeResult.classification : \A i \in 1..Len(Declared) :
      ( /\ InIncludes(i, tag) \/ PatternMatches(i, tag)
        /\ \A j \in 1..(i - 1) : ~InIncludes(j, tag) /\ ~PatternMatches(j, tag) ) =>
         mergeResult.classification[tag] = Declared[i].category

C19_Witness ==
  /\ Classified
  /\ \E tag \in DOMAIN mergeResult.classification :
       \E i \in 1..Len(Declared) : \E j \in 1..Len(Declared) :
         /\ i < j
         /\ InIncludes(i, tag) /\ ~PatternMatches(i, tag)
         /\ PatternMatches(j, tag)
         /\ mergeResult.classification[tag] = Declared[i].category
         /\ Declared[i].category # Declared[j].category

\* the i-th declared category matches the tag
Matches(i, tag) == InIncludes(i, tag) \/ PatternMatches(i, tag)

\* C20: the classification has exactly the returned tags as keys and gives
\* each a declared category or `uncategorized`; without taxonomy every tag
\* is `uncategorized`, and so is a tag that no category matches; a category
\* whose pattern is malformed still classifies the tags of its includes and
\* lets the categories after it classify the others; and the tags and the
\* added tags do not depend on the taxonomy.
C20_ClassificationTotal ==
  mergeResult.returned =>
    /\ DOMAIN mergeResult.classification = Range(mergeResult.tags)
    /\ \A tag \in Range(mergeResult.tags) :
         /\ mergeResult.classification[tag] \in
              {Uncategorized} \cup {Declared[i].category : i \in 1..Len(Declared)}
         /\ ~mergeArgs.taxonomyRules.defined => mergeResult.classification[tag] = Uncategorized
         /\ (\A i \in 1..Len(Declared) : ~Matches(i, tag)) =>
              mergeResult.classification[tag] = Uncategorized
         /\ \A i \in 1..Len(Declared) :
              (Declared[i].pattern.kind = "malformed" /\ \A j \in 1..(i - 1) : ~Matches(j, tag)) =>
                 /\ InIncludes(i, tag) => mergeResult.classification[tag] = Declared[i].category
                 /\ \A k \in (i + 1)..Len(Declared) :
                      (Matches(k, tag) /\ \A j \in i..(k - 1) : ~Matches(j, tag)) =>
                         mergeResult.classification[tag] = Declared[k].category
    /\ LET plain == mergeTags(mergeArgs.fromSource, mergeArgs.recommended,
                              mergeArgs.historical, mergeArgs.sortTags)
       IN mergeResult.tags = plain.tags /\ mergeResult.added = plain.added

C20_Witness ==
  /\ Classified
  /\ Len(Declared) >= 2
  /\ Declared[1].pattern.kind = "malformed"
  /\ \E tag \in Range(mergeResult.tags) :
       InIncludes(1, tag) /\ mergeResult.classification[tag] = Declared[1].category
  /\ \E tag \in Range(mergeResult.tags) :
       ~Matches(1, tag) /\ mergeResult.classification[tag] = Declared[2].category
  /\ \E tag \in Range(mergeResult.tags) : mergeResult.classification[tag] = Uncategorized

\* C21: a document whose only response was a successful one without a
\* parsable JSON array, in a run without rejected write, has no proposed
\* tags and no error recorded, slept no backoff delay, received no second
\* request, and has as final tags the merge of its historical and own tags.
C21_UnparsableContentIsNoError ==
  \A p \in Paths :
    (adapterLog[p].unparsed >= 1 /\ ~WriteRejected) =>
       /\ adapterLog[p].sent = 1
       /\ sleeps[p] = <<>>
       /\ task[p].attempt = 0
       /\ results[p].tags = <<>>
       /\ results[p].error = NoError
       /\ merges[p].added = <<>>
       /\ merges[p].tags = dedupe(dedupe(HistoricalOf(p), FALSE) \o
                                  dedupe(FrontMatterTags(p), FALSE), config.sortTags)
       /\ Get(tagsMap, p) = merges[p].tags
       /\ runPC = "done" => stats.llmFailures = Cardinality(FailedDocuments)

C21_Witness ==
  \E p \in Paths :
    /\ adapterLog[p].unparsed = 1 /\ task[p].pc = "done" /\ runPC = "done"
    /\ HistoricalOf(p) # <<>>
    /\ Len(merges[p].tags) >= 2
    /\ stats.llmFailures = 0

(***************************************************************************)
(* Properties of readTagsFile and buildDiff                                *)
(***************************************************************************)

\* the file does not hold an index: it is there, and it cannot be read, or
\* its text is not JSON, or its JSON is not an object
NotAnIndex(file) == file.kind \notin {"absent", "json"}

\* C22: readTagsFile returns for every file; a missing file yields the
\* empty index, and a file that does not hold an index yields the empty
\* index and a warning.
C22_ReadNeverRaisesAndWarns ==
  writerResult.read.returned =>
    /\ writerArgs.file.kind = "absent" =>
         writerResult.read.map = <<>> /\ ~writerResult.read.warned
    /\ writerArgs.file.kind = "json" => writerResult.read.map = writerArgs.file.entries
    /\ NotAnIndex(writerArgs.file) =>
         writerResult.read.map = <<>> /\ writerResult.read.warned

\* the paths of a list, as a set
PathSet(paths) == {paths[i] : i \in 1..Len(paths)}

\* the tag sequence an index holds for a path differs from the one given
SequenceDiffers(map, path, tags) == ~Has(map, path) \/ Get(map, path) # tags

\* C23: buildDiff compares position by position. A path is in updatedPaths
\* exactly when the next index holds it with a tag sequence other than the
\* previous one (a reordering or a missing previous entry included), and in
\* removedPaths exactly when the previous index holds it and the next does not.
C23_DiffIsPositional ==
  writerResult.diff.returned =>
    /\ \A path \in Paths :
         path \in PathSet(writerResult.diff.updatedPaths) <=>
           /\ Has(writerArgs.next, path)
           /\ SequenceDiffers(writerArgs.existing, path, Get(writerArgs.next, path))
    /\ \A path \in Paths :
         path \in PathSet(writerResult.diff.removedPaths) <=>
           Has(writerArgs.existing, path) /\ ~Has(writerArgs.next, path)

\* the diff of two indexes that hold the same tags of a.md in another order
\* has returned and reports a.md as updated
C23_Witness ==
  /\ writerResult.diff.returned
  /\ Has(writerArgs.existing, "a.md") /\ Has(writerArgs.next, "a.md")
  /\ Get(writerArgs.existing, "a.md") # Get(writerArgs.next, "a.md")
  /\ PathSet([i \in 1..Len(Get(writerArgs.existing, "a.md")) |-> Get(writerArgs.existing, "a.md")[i]])
       = PathSet([i \in 1..Len(Get(writerArgs.next, "a.md")) |-> Get(writerArgs.next, "a.md")[i]])
  /\ Len(Get(writerArgs.existing, "a.md")) = Len(Get(writerArgs.next, "a.md"))
  /\ "a.md" \in PathSet(writerResult.diff.updatedPaths)

(***************************************************************************)
(* Properties of the frontmatter command                                   *)
(***************************************************************************)

\* the entries the loop has dealt with
Handled == 1..(applyPos - 1)

\* C24: a loaded document whose own tags are the list the index holds for it
\* is reported unchanged and is not written, and every document written is
\* one reported updated.
C24_UpToDateIsNotWritten ==
  /\ \A i \in Handled :
       LET path == applyEntries[i].path
       IN (InPostMap(path) /\ PostOf(path).frontMatterTags = applyEntries[i].tags) =>
            /\ path \in PathSet(applyResult.unchanged)
            /\ path \notin PathSet(applyResult.updated)
            /\ path \notin PathSet(applyWrites)
            /\ documents[path] = PostOf(path).document
  /\ PathSet(applyWrites) \subseteq PathSet(applyResult.updated)

\* a real run is over in which a.md carried the tags of the index and was
\* left alone while another document was written
C24_Witness ==
  /\ applyPC = "done"
  /\ ~config.dryRun
  /\ InPostMap("a.md")
  /\ Has(applyEntries, "a.md")
  /\ PostOf("a.md").frontMatterTags = Get(applyEntries, "a.md")
  /\ "a.md" \in PathSet(applyResult.unchanged)
  /\ applyWrites # <<>>

\* C25: a document that was rewritten has the fields other than tags spelled
\* as they were, and the body it had.
C25_OnlyTagsChange ==
  \A path \in PathSet(applyWrites) :
    /\ documents[path].fields = PostOf(path).document.fields
    /\ documents[path].body = PostOf(path).document.body

\* C26: an entry of the index without loaded post is reported missing exactly
\* when its file is not on disk, and filteredOut exactly when it is.
C26_MissingIffAbsent ==
  \A i \in Handled :
    LET path == applyEntries[i].path
    IN ~InPostMap(path) =>
         /\ path \in PathSet(applyResult.missing) <=> path \notin files
         /\ path \in PathSet(applyResult.filteredOut) <=> path \in files

\* C27: a dry run writes no document, and the real run made after it on the
\* same index and corpus returns the classification the dry run returned.
C27_DryRunReportsLikeRealRun ==
  /\ config.dryRun =>
       /\ applyWrites = <<>>
       /\ \A i \in 1..Len(applyPosts) :
            documents[applyPosts[i].path] = applyPosts[i].document
  /\ (applyPC = "done" /\ applyPrev.dryRun /\ ~config.dryRun) =>
       /\ applyPrev.writes = <<>>
       /\ applyResult = applyPrev.result

\* a real run that wrote a document is over after a dry run
C27_Witness ==
  /\ applyPC = "done"
  /\ applyPrev.dryRun
  /\ ~config.dryRun
  /\ applyWrites # <<>>
  /\ applyResult.unchanged # <<>>

(***************************************************************************)
(* Properties of the writes of tags.json, of the retry loop and of pruning *)
(***************************************************************************)

\* C28: at every point tags.json is the complete index of before a commit
\* or the complete index of after it, never a file cut short.
C28_CommitIsAtomic ==
  /\ artifact.kind \in {"absent", "json"}
  /\ \A i \in 1..Len(writing) :
       writing[i].stage = "writeFile" => artifact.kind = "json"

\* the delay the documentation gives for the retry numbered `attempt`
DocumentedDelay(attempt) ==
  IF BackoffStepMs * attempt < BackoffCapMs THEN BackoffStepMs * attempt ELSE BackoffCapMs

C30_DraftEntrySurvivesFinalize ==
  (runPC = "done" /\ ~config.dryRun /\ ~FilterApplied(config.filter)
     /\ ~config.includeDrafts) =>
    \A d \in drafts \cap files :
      Has(historicalTags, d) => artifact.kind = "json" /\ Has(artifact.entries, d)

(***************************************************************************)
(* Properties of a generate run as a whole                                 *)
(***************************************************************************)

\* the identifiers a completed run leaves in tags.json, by the inputs alone
ExpectedKeys ==
  KeptKeys(historicalTags, Range(posts), config.filter) \cup Range(postsToProcess)

\* the tags a completed run leaves for an identifier, by the historical
\* index, the document's own tags and the outcome recorded for it
ExpectedTags(path) ==
  IF path \in Range(postsToProcess)
  THEN mergeTags(FrontMatterTags(path), results[path].tags, HistoricalOf(path),
                 config.sortTags).tags
  ELSE HistoricalOf(path)

\* the order in which the callbacks fired is not the order of the documents
OutOfOrder(order) ==
  \E i \in 1..Len(order) : \E j \in 1..Len(order) :
    i < j /\ order[i] \in Paths /\ order[j] \in Paths
          /\ PathRank(order[j]) < PathRank(order[i])

\* C31: whatever the order in which the documents complete, the index a run
\* that writes leaves in tags.json is the one given by the historical index,
\* the corpus, the configuration and the outcome of each document.
C31_FinalIndexIgnoresSchedule ==
  (runPC = "done" /\ ~config.dryRun) =>
     /\ artifact.kind = "json"
     /\ Keys(artifact.entries) = ExpectedKeys
     /\ \A path \in ExpectedKeys : Get(artifact.entries, path) = ExpectedTags(path)
     /\ \A i \in 1..Len(artifact.entries) : \A j \in 1..Len(artifact.entries) :
          i < j => PathRank(artifact.entries[i].path) < PathRank(artifact.entries[j].path)

\* a run that writes is over in which a later document completed before an
\* earlier one
C31_Witness ==
  /\ runPC = "done" /\ ~config.dryRun
  /\ Len(postsToProcess) >= 2
  /\ OutOfOrder(scheduled)

\* the index a commit made before finalize writes, or has written
IncrementalSnapshots ==
  {writing[i].snapshot : i \in {j \in 1..Len(writing) : writing[j].reason \in Paths}}
    \cup (IF runPC = "generating" /\ performed # <<>> /\ artifact.kind = "json"
          THEN {artifact.entries} ELSE {})

\* the tags an entry of such a snapshot may carry
HistoricalOrMerged(path) ==
  {HistoricalOf(path)} \cup (IF path \in DOMAIN merges THEN {merges[path].tags} ELSE {})

\* C32: every snapshot written before finalize holds every identifier of the
\* historical index, with its historical tags or, once the document's
\* callback has fired, with its merged tags.
C32_NoEntryLostBeforeFinalize ==
  \A snapshot \in IncrementalSnapshots :
    \A path \in Keys(historicalTags) :
      /\ Has(snapshot, path)
      /\ Get(snapshot, path) \in HistoricalOrMerged(path)
      /\ path \notin DOMAIN merges => Get(snapshot, path) = HistoricalOf(path)

\* an incremental write is in progress whose snapshot holds an entry of the
\* historical index untouched and the merged tags of a processed document
C32_Witness ==
  \E i \in 1..Len(writing) :
    /\ writing[i].reason \in Paths
    /\ \E path \in Keys(historicalTags) :
         /\ path \notin DOMAIN merges
         /\ Get(writing[i].snapshot, path) = HistoricalOf(path)
    /\ \E path \in DOMAIN merges :
         /\ Has(writing[i].snapshot, path)
         /\ Get(writing[i].snapshot, path) = merges[path].tags

\* C33: once a write of an incremental snapshot was rejected, no further
\* write is started, tags.json is left as it is, the run does not complete,
\* and it ends failed with exit status 1.
C33_WriteFailureStopsRun ==
  /\ [][chainRejected =>
          /\ performed' = performed
          /\ artifact' = artifact
          /\ writing' = <<>>
          /\ runPC' # "done"]_vars
  /\ chainRejected ~> (runPC = "failed" /\ exitCode = 1)

\* the run has failed after the rejection of a snapshot, with writes that
\* were scheduled and never started
C33_Witness ==
  /\ chainRejected
  /\ runPC = "failed" /\ exitCode = 1
  /\ Len(scheduled) > Len(performed) + 1
  /\ "finalize" \notin Range(performed)

\* C34: in the invocation that follows a real run on the same index and
\* corpus, with the same filter, draft and sort options, no document is
\* written, and every document the real run reported updated is reported
\* unchanged.
C34_ApplyIsIdempotent ==
  (applyNo > 1 /\ ~applyPrev.dryRun) =>
     /\ applyWrites = <<>>
     /\ applyResult.updated = <<>>
     /\ applyPC = "done" =>
          PathSet(applyPrev.result.updated) \subseteq PathSet(applyResult.unchanged)

\* the invocation after a real run that wrote documents is over
C34_Witness ==
  /\ applyPC = "done"
  /\ applyNo > 1
  /\ ~applyPrev.dryRun
  /\ applyPrev.writes # <<>>
  /\ PathSet(applyPrev.writes) \subseteq PathSet(applyResult.unchanged)

(***************************************************************************)
(* Properties of mergeTags: nothing dropped, nothing invented              *)
(***************************************************************************)

\* the case-insensitive keys of the tags of a list that are not empty once
\* normalised
KeysOf(tags) ==
  {toLowerCase(normalizeTag(tags[i])) : i \in {j \in 1..Len(tags) : normalizeTag(tags[j]) # <<>>}}

\* C35: the keys of the tags mergeTags returns are the keys of the
\* historical tags, of the document's own tags and of the proposed tags
\* taken together: every historical and every own tag is in the result, and
\* no key of the result comes from elsewhere.
C35_MergeKeepsAllAndInventsNone ==
  mergeResult.returned =>
    /\ KeysOf(mergeResult.tags) =
         KeysOf(mergeArgs.historical) \cup KeysOf(mergeArgs.fromSource)
           \cup KeysOf(mergeArgs.recommended)
    /\ \A i \in 1..Len(mergeArgs.historical) :
         normalizeTag(mergeArgs.historical[i]) # <<>> =>
           \E k \in 1..Len(mergeResult.tags) :
             toLowerCase(mergeResult.tags[k]) = toLowerCase(normalizeTag(mergeArgs.historical[i]))
    /\ \A i \in 1..Len(mergeArgs.fromSource) :
         normalizeTag(mergeArgs.fromSource[i]) # <<>> =>
           \E k \in 1..Len(mergeResult.tags) :
             toLowerCase(mergeResult.tags[k]) = toLowerCase(normalizeTag(mergeArgs.fromSource[i]))
    /\ \A k \in 1..Len(mergeResult.tags) : mergeResult.tags[k] # <<>>

\* a merge has returned whose three lists each brought a key the two others
\* lack, and one of whose lists held a tag that is empty once normalised
C35_Witness ==
  /\ mergeResult.returned
  /\ KeysOf(mergeArgs.historical) \ (KeysOf(mergeArgs.fromSource) \cup KeysOf(mergeArgs.recommended)) # {}
  /\ KeysOf(mergeArgs.fromSource) \ (KeysOf(mergeArgs.historical) \cup KeysOf(mergeArgs.recommended)) # {}
  /\ KeysOf(mergeArgs.recommended) \ (KeysOf(mergeArgs.historical) \cup KeysOf(mergeArgs.fromSource)) # {}
  /\ \E i \in 1..Len(mergeArgs.recommended) : normalizeTag(mergeArgs.recommended[i]) = <<>>

====
